---- MODULE Spec2Model ----
(***************************************************************************)
(* A model of the note synchronisation and editing core of the voice-note  *)
(* client (src/App.tsx), its recorder callbacks (src/components/           *)
(* Recorder.tsx) and the update service (src/services/updateService.ts).   *)
(*                                                                         *)
(* Text is a sequence of one-character strings, so that splitting,         *)
(* trimming, joining and slicing are computed the way the code computes    *)
(* them.  Identifiers minted by crypto.randomUUID() are drawn from         *)
(* counters; Date.now() is the variable now, which only moves forward.     *)
(***************************************************************************)
EXTENDS Integers, Sequences, FiniteSets, TLC

NULL == "null"

\* ----------------------------------------------------------------- bounds
MaxVerLen == 3
RtMaxLen == 3
RtMaxParas == 2
MaxUuid == 3
MaxNotes == 2
MaxClock == 2
MaxBody == 4
MaxImport == 1
MaxPending == 1
UpdMaxLen == 2
MaxApplies == 2

\* ------------------------------------------------------------------- text
NL == "\n"
SP == " "

Max(a, b) == IF a >= b THEN a ELSE b
Min(a, b) == IF a <= b THEN a ELSE b

\* All sequences over alphabet of length at most n.
RECURSIVE StringsUpTo(_, _)
StringsUpTo(alphabet, n) ==
  IF n = 0 THEN {<<>>}
  ELSE LET shorter == StringsUpTo(alphabet, n - 1)
       IN  shorter \cup {Append(s, c) : s \in shorter, c \in alphabet}

\* String.prototype.trim's whitespace, over the characters of the model.
IsWhitespace(c) == c \in {SP, NL}

RECURSIVE TrimStart(_)
TrimStart(s) ==
  IF s # <<>> /\ IsWhitespace(Head(s)) THEN TrimStart(Tail(s)) ELSE s

RECURSIVE TrimEnd(_)
TrimEnd(s) ==
  IF s # <<>> /\ IsWhitespace(s[Len(s)])
  THEN TrimEnd(SubSeq(s, 1, Len(s) - 1)) ELSE s

\* String.prototype.trim
Trim(s) == TrimEnd(TrimStart(s))

\* String.prototype.slice(from, to) with 0-based ends, both clamped to the length.
Slice(s, from, to) ==
  LET a == Min(Max(from, 0), Len(s))
      b == Min(Max(to, 0), Len(s))
  IN  IF a >= b THEN <<>> ELSE SubSeq(s, a + 1, b)

\* The end (1-based, inclusive) of the run of line breaks that starts at i.
RECURSIVE RunEnd(_, _)
RunEnd(s, i) ==
  IF i < Len(s) /\ s[i + 1] = NL THEN RunEnd(s, i + 1) ELSE i

\* bodyText.split(/\n\n+/): cut at every maximal run of two or more line breaks.
RECURSIVE SplitFrom(_, _, _)
SplitFrom(s, i, cur) ==
  IF i > Len(s) THEN <<cur>>
  ELSE IF s[i] = NL /\ i < Len(s) /\ s[i + 1] = NL
       THEN <<cur>> \o SplitFrom(s, RunEnd(s, i) + 1, <<>>)
       ELSE SplitFrom(s, i + 1, Append(cur, s[i]))

SplitBlankRuns(s) == SplitFrom(s, 1, <<>>)

RECURSIVE MapTrimNonEmpty(_)
MapTrimNonEmpty(parts) ==
  IF parts = <<>> THEN <<>>
  ELSE LET rest == MapTrimNonEmpty(Tail(parts))
       IN  IF Trim(Head(parts)) # <<>> THEN <<Trim(Head(parts))>> \o rest
           ELSE rest

\* updateNoteBody's blocks: split on blank-line runs, drop blank blocks, trim.
BodyBlocks(bodyText) == MapTrimNonEmpty(SplitBlankRuns(bodyText))

RECURSIVE JoinWith(_, _)
JoinWith(texts, sep) ==
  IF texts = <<>> THEN <<>>
  ELSE IF Len(texts) = 1 THEN texts[1]
  ELSE texts[1] \o sep \o JoinWith(Tail(texts), sep)

JoinParasSingleBreak(texts) == JoinWith(texts, <<NL>>)

\* paragraphs.map(p => p.text).join('\n\n'): the body shown in the editor.
JoinParas(texts) == JoinWith(texts, <<NL, NL>>)

\* -------------------------------------------------------- version strings
VerChars == {"0", "1", "2", "."}

DigitValue(c) ==
  CASE c = "0" -> 0 [] c = "1" -> 1 [] c = "2" -> 2 [] c = "3" -> 3
    [] c = "4" -> 4 [] c = "5" -> 5 [] c = "6" -> 6 [] c = "7" -> 7
    [] c = "8" -> 8 [] c = "9" -> 9

\* Number(part) for a string of decimal digits; Number("") is 0.
RECURSIVE NumberOf(_)
NumberOf(part) ==
  IF part = <<>> THEN 0
  ELSE 10 * NumberOf(SubSeq(part, 1, Len(part) - 1)) + DigitValue(part[Len(part)])

\* a.split('.')
RECURSIVE SplitDotsFrom(_, _, _)
SplitDotsFrom(s, i, cur) ==
  IF i > Len(s) THEN <<cur>>
  ELSE IF s[i] = "." THEN <<cur>> \o SplitDotsFrom(s, i + 1, <<>>)
  ELSE SplitDotsFrom(s, i + 1, Append(cur, s[i]))

VersionParts(s) ==
  LET parts == SplitDotsFrom(s, 1, <<>>)
  IN  [i \in 1..Len(parts) |-> NumberOf(parts[i])]

RECURSIVE CompareFromGe(_, _, _)
CompareFromGe(pa, pb, i) ==
  IF i > Max(Len(pa), Len(pb)) THEN 0
  ELSE LET va == IF i <= Len(pa) THEN pa[i] ELSE 0
           vb == IF i <= Len(pb) THEN pb[i] ELSE 0
       IN  IF va >= vb THEN 1
           ELSE IF va < vb THEN -1
           ELSE CompareFromGe(pa, pb, i + 1)

\* The loop of compareVersions from component i on.
RECURSIVE CompareFrom(_, _, _)
CompareFrom(pa, pb, i) ==
  IF i > Max(Len(pa), Len(pb)) THEN 0
  ELSE LET va == IF i <= Len(pa) THEN pa[i] ELSE 0
           vb == IF i <= Len(pb) THEN pb[i] ELSE 0
       IN  IF va > vb THEN 1
           ELSE IF va < vb THEN -1
           ELSE CompareFrom(pa, pb, i + 1)

compareVersionsGe(a, b) == CompareFromGe(VersionParts(a), VersionParts(b), 1)

compareVersions(a, b) == CompareFrom(VersionParts(a), VersionParts(b), 1)

\* ------------------------------------------------------------------ state
VARIABLES
  notes,                \* useState<Note[]>: the in-memory collection, in list order
  currentNoteId,        \* useState<string | null>
  undoSnapshot,         \* undoSnapshotRef: the single undo slot
  folders,              \* useState<Folder[]>: the ids of the folders
  selectedFolderId,     \* the active folder filter, NULL for all notes
  selectionRange,       \* selectionRangeRef: the range a transcript will replace
  bodyTextAtRecord,     \* bodyTextAtRecordRef: the body captured with the range
  lastSelection,        \* lastSelectionRef: the last selection the editor reported
  status,               \* RecordingStatus
  recClosure,           \* what the recorder's onstop callback closed over at start
  mode,                 \* the recorder's RecordingMode
  pendingFolderDeletes, \* handleDeleteFolder calls awaiting the remote delete
  importPending,        \* the parsed file of an import awaiting its upserts
  userId,               \* useState<string | null>: the key of every remote call
  cbUserId,             \* the userId the memoized body/transcript callbacks closed over
  now,                  \* Date.now()
  nextUuid,             \* the next value of crypto.randomUUID()
  op,                   \* the handler that took the last step
  issued,               \* the remote calls the last step issued
  user,                 \* useState<any>: the session's user, here its id
  loading,              \* true until the initial session check has answered
  notesLoading,         \* a notes load is running
  notesLoadedOnce,      \* a notes load has finished since the last sign-out event
  resolvers,            \* the invocations of resolveUserId, in the order they started
  loadsInFlight,        \* the selects of the load effect that have not answered
  alertShown,           \* the alert() of the last step, if it raised one
  readyCalled,          \* the last step called notifyAppReady()
  elSelection,          \* what el.selectionStart/End were at the last recording start
  transcribed,          \* how the transcribeAudio call of the last transcript step went
  replacingSelection,   \* the overlay: replacingSelection with its range and body, if set
  remote,               \* the notes table and the calls on their way to it, where followed
  updateAvailable,      \* useState<UpdateCheckResult | null>: the version on offer
  updateUpdating,       \* useState(false): an applyUpdate is running
  appliesInFlight,      \* the applyUpdate calls that have not settled
  applyCalls,           \* per applyUpdate that has not settled, the plugin calls it made
  selectionMode,        \* useState(false): the list shows its check boxes
  selectedNoteIds,      \* useState<Set<string>>: the ids checked, in insertion order
  verA, verB, verOut,   \* compareVersions: its two arguments and its result
  updIn, updOut,        \* checkForUpdate: what it meets, and the result it resolves with
  rtIn, rtOut           \* a note's paragraph texts, and the texts re-derived from its body

storeVars == <<notes, currentNoteId, undoSnapshot, folders, selectedFolderId,
               selectionRange, bodyTextAtRecord, lastSelection, status, recClosure, mode,
               pendingFolderDeletes, importPending, userId, cbUserId, now, nextUuid,
               op, issued, alertShown, readyCalled>>
authVars == <<user, loading, notesLoading, notesLoadedOnce, resolvers, loadsInFlight>>
selVars == <<selectionMode, selectedNoteIds>>
pureVars == <<verA, verB, verOut, rtIn, rtOut, updIn, updOut>>
shellVars == <<updateAvailable, updateUpdating, appliesInFlight, applyCalls>>
sideVars == <<elSelection, transcribed, replacingSelection, shellVars>>
restVars == <<authVars, selVars, pureVars, sideVars>>
vars == <<storeVars, authVars, selVars, pureVars, sideVars, remote>>

\* seq without its k-th element.
RemoveAt(seq, k) == [i \in 1..(Len(seq) - 1) |-> IF i < k THEN seq[i] ELSE seq[i + 1]]

\* An optional value is a sequence of length at most one.
None == <<>>
Some(x) == <<x>>

\* A note id: a minted uuid (1, 2, ...), null (currentNoteId only) or undefined (a
\* note read from a file that gives it no id).
NoId == 0
UndefId == -1
\* !id
Falsy(id) == id \in {NoId, UndefId}

\* The user row's id public.users holds for the signed-in identity, and the
\* identity itself (session.user.id).
InternalUserId == "u1"
AuthIdentity == "a1"

\* ------------------------------------------------------------ note helpers
\* notes.find(n => n.id === id): null never equals a note's id
FindNote(ns, id) ==
  LET hits == {i \in 1..Len(ns) : ns[i].id = id /\ id # NoId}
  IN  IF hits = {} THEN None
      ELSE Some(ns[CHOOSE i \in hits : \A j \in hits : i <= j])

ParagraphTexts(note) == [i \in 1..Len(note.paragraphs) |-> note.paragraphs[i].text]

\* The value of the body editor: the current note's texts joined (App.tsx 913, 625).
BodyOf(ns, id) ==
  LET f == FindNote(ns, id)
  IN  IF f = None THEN <<>> ELSE JoinParas(ParagraphTexts(f[1]))

NoteIds(ns) == {ns[i].id : i \in 1..Len(ns)}

\* persistNoteToCloud as closed over a render whose userId is uid
persistNoteToCloud(note, uid) ==
  IF uid = NULL THEN <<>>
  ELSE <<[op |-> "upsert", user_id |-> uid, id |-> note.id, folder |-> NULL,
          note |-> Some(note)]>>

\* deleteNoteFromCloud as closed over a render whose userId is uid
deleteNoteFromCloud(id, uid) ==
  IF uid = NULL THEN <<>>
  ELSE <<[op |-> "delete", user_id |-> uid, id |-> id, folder |-> NULL, note |-> None]>>

\* The calls on the notes table among the calls a step issued.
NoteCalls(calls) == SelectSeq(calls, LAMBDA c : c.op \in {"upsert", "delete"})

\* supabase.from('notes').upsert(...) and .delete(): the request leaves with the
\* step that issued it and is on its way until the table answers.
Transmit(r, calls) ==
  IF r = None THEN None
  ELSE Some([r[1] EXCEPT !.inFlight = @ \o NoteCalls(calls)])

RECURSIVE PersistAll(_, _)
PersistAll(ns, uid) ==
  IF ns = <<>> THEN <<>>
  ELSE persistNoteToCloud(Head(ns), uid) \o PersistAll(Tail(ns), uid)

Matching(ns, id) == SelectSeq(ns, LAMBDA n : n.id = id)

\* A Set<string> keeps its members in the order they were added: next.delete(id)
\* for every id of gone.
SetDelete(ids, gone) == SelectSeq(ids, LAMBDA x : x \notin gone)

SetMembers(ids) == {ids[i] : i \in 1..Len(ids)}

\* The list the sidebar is given: every note, or the notes of the chosen folder.
notesForList ==
  IF selectedFolderId = NULL THEN notes
  ELSE SelectSeq(notes, LAMBDA n : n.folder_id = selectedFolderId)

\* The notes the list shows: the ones that can be opened, checked or deleted there.
ListedIds == NoteIds(notesForList)

DeleteAllHeadOnly(ids, uid) == deleteNoteFromCloud(Head(ids), uid)

\* ids.forEach((id) => deleteNoteFromCloud(id))
RECURSIVE DeleteAll(_, _)
DeleteAll(ids, uid) ==
  IF ids = <<>> THEN <<>>
  ELSE deleteNoteFromCloud(Head(ids), uid) \o DeleteAll(Tail(ids), uid)

\* saveUndoSnapshot over the notes and the current id its closure holds
saveUndoSnapshot(ns, cur, slot) ==
  LET f == FindNote(ns, cur)
  IN  IF f = None THEN slot
      ELSE Some([noteId |-> f[1].id, title |-> f[1].title,
                 paragraphs |-> f[1].paragraphs])

SlotAfterKept(cur, slot) == slot

\* The effect on [currentNoteId] (App.tsx 528-532) clears the slot and the range
\* whenever the id a step leaves differs from the one it found.
SlotAfter(cur, slot) == IF cur # currentNoteId THEN None ELSE slot

\* The memoized callbacks are rebuilt, over the render's userId, when a step sets
\* notes or changes currentNoteId (the dependency lists at App.tsx 485, 614, 707).
CbAfter(rebuilt, uid) == IF rebuilt THEN uid ELSE cbUserId

\* What the main screen needs to be shown (App.tsx 710-749).
MainScreen(isLoading, u, uid, isNotesLoading, loadedOnce) ==
  /\ ~isLoading
  /\ u # NULL
  /\ uid # NULL
  /\ ~isNotesLoading
  /\ loadedOnce

UiShown == MainScreen(loading, user, userId, notesLoading, notesLoadedOnce)

\* One step of the sort: n goes behind the notes that are not older than it.
RECURSIVE InsertByUpdatedAt(_, _)
InsertByUpdatedAt(sorted, n) ==
  IF sorted = <<>> THEN <<n>>
  ELSE IF Head(sorted).updatedAt >= n.updatedAt
       THEN <<Head(sorted)>> \o InsertByUpdatedAt(Tail(sorted), n)
       ELSE <<n>> \o sorted

\* notes.sort((a, b) => b.updatedAt - a.updatedAt): the array itself, reordered
\* (Array.prototype.sort is stable).
SortByUpdatedAt(ns) ==
  LET F[i \in 0..Len(ns)] ==
        IF i = 0 THEN <<>> ELSE InsertByUpdatedAt(F[i - 1], ns[i])
  IN  F[Len(ns)]

\* The render that follows a step. The sidebar is drawn with the main screen and
\* sorts the array it is given where it stands (Sidebar.tsx 48); with no folder
\* chosen that array is the notes state itself (App.tsx 311-313), with a folder
\* chosen it is a filtered copy.
SidebarRender(ns, filter, shown) ==
  IF shown /\ filter = NULL THEN SortByUpdatedAt(ns) ELSE ns

\* The same for a step that leaves the folder filter and the session as they are.
Rendered(ns) == SidebarRender(ns, selectedFolderId, UiShown)

\* ------------------------------------------------------------ input sets
TextChars == {"a", SP, NL}

RECURSIVE SeqsUpTo(_, _)
SeqsUpTo(S, n) ==
  IF n = 0 THEN {<<>>}
  ELSE LET shorter == SeqsUpTo(S, n - 1)
       IN  shorter \cup {Append(s, x) : s \in shorter, x \in S}

PureIdle ==
  /\ verA = <<>> /\ verB = <<>> /\ verOut = None
  /\ rtIn = <<>> /\ rtOut = None
  /\ updIn = None /\ updOut = None

TitleInputs == {<<"t">>}
\* 'নতুন নোট - ' + new Date().toLocaleTimeString(), as one marker text
NewNoteTitle == <<"n">>
FolderIds == {"f1"}

\* ------------------------------------------------------------- the clock
Tick ==
  /\ now < MaxClock
  /\ now' = now + 1
  /\ op' = "tick"
  /\ alertShown' = None
  /\ readyCalled' = FALSE
  /\ issued' = <<>>
  /\ remote' = Transmit(remote, issued')
  /\ UNCHANGED <<notes, currentNoteId, undoSnapshot, folders, selectedFolderId,
                 selectionRange, bodyTextAtRecord, lastSelection, status, recClosure, mode,
                 pendingFolderDeletes, importPending, userId, cbUserId, nextUuid>>
  /\ UNCHANGED restVars

\* --------------------------------------------------------------- NoteStore
handleNewNote ==
  /\ nextUuid <= MaxUuid
  /\ Len(notes) < MaxNotes
  /\ LET newNote == [id |-> nextUuid, title |-> NewNoteTitle, paragraphs |-> <<>>,
                     createdAt |-> now, updatedAt |-> now,
                     folder_id |-> selectedFolderId]
     IN  /\ notes' = Rendered(<<newNote>> \o notes)
         /\ currentNoteId' = newNote.id
         /\ issued' = persistNoteToCloud(newNote, userId)
         /\ remote' = Transmit(remote, issued')
  /\ nextUuid' = nextUuid + 1
  /\ undoSnapshot' = None
  /\ selectionRange' = None
  /\ cbUserId' = userId
  /\ op' = "handleNewNote"
  /\ alertShown' = None
  /\ readyCalled' = FALSE
  /\ UNCHANGED <<folders, selectedFolderId, bodyTextAtRecord, lastSelection, status,
                 recClosure, mode, pendingFolderDeletes, importPending, userId, now>>
  /\ UNCHANGED restVars

handleSelectNote(id) ==
  /\ id \in NoteIds(notes)
  /\ currentNoteId' = id
  /\ undoSnapshot' = SlotAfter(id, undoSnapshot)
  /\ selectionRange' = SlotAfter(id, selectionRange)
  /\ cbUserId' = CbAfter(id # currentNoteId, userId)
  /\ op' = "handleSelectNote"
  /\ alertShown' = None
  /\ readyCalled' = FALSE
  /\ issued' = <<>>
  /\ remote' = Transmit(remote, issued')
  /\ UNCHANGED <<notes, folders, selectedFolderId, bodyTextAtRecord, lastSelection,
                 status, recClosure, mode, pendingFolderDeletes, importPending, userId, now,
                 nextUuid>>
  /\ UNCHANGED restVars

\* updateTitle's replacement of a matching note
TitleEdit(n, newTitle, t) == [n EXCEPT !.title = newTitle, !.updatedAt = t]

updateTitle(newTitle) ==
  /\ FindNote(notes, currentNoteId) # None
  /\ undoSnapshot' = saveUndoSnapshot(notes, currentNoteId, undoSnapshot)
  /\ notes' = Rendered([i \in 1..Len(notes) |->
                          IF notes[i].id = currentNoteId
                          THEN TitleEdit(notes[i], newTitle, now)
                          ELSE notes[i]])
  /\ issued' = PersistAll(Matching(notes', currentNoteId), userId)
  /\ remote' = Transmit(remote, issued')
  /\ cbUserId' = userId
  /\ op' = "updateTitle"
  /\ alertShown' = None
  /\ readyCalled' = FALSE
  /\ UNCHANGED <<currentNoteId, folders, selectedFolderId, selectionRange,
                 bodyTextAtRecord, lastSelection, status, recClosure, mode,
                 pendingFolderDeletes, importPending, userId, now, nextUuid>>
  /\ UNCHANGED restVars

\* A merge that stamps every paragraph anew.
NewParagraphsRestamped(existing, blocks, t, next) ==
  [i \in 1..Len(blocks) |->
     IF i <= Len(existing) THEN [existing[i] EXCEPT !.text = blocks[i], !.timestamp = t]
     ELSE [id |-> next + (i - Len(existing)) - 1, text |-> blocks[i], timestamp |-> t]]

\* updateNoteBody's index-aligned merge: block i keeps paragraph i's id and
\* timestamp, a block past the old paragraphs gets a minted id.
NewParagraphs(existing, blocks, t, next) ==
  [i \in 1..Len(blocks) |->
     IF i <= Len(existing) THEN [existing[i] EXCEPT !.text = blocks[i]]
     ELSE [id |-> next + (i - Len(existing)) - 1, text |-> blocks[i], timestamp |-> t]]

\* prev.map(...) of updateNoteBody: the notes after, and the next unminted uuid
RECURSIVE BodyUpdate(_, _, _, _, _)
BodyUpdate(ns, id, blocks, t, next) ==
  IF ns = <<>> THEN [notes |-> <<>>, next |-> next]
  ELSE LET n == Head(ns)
       IN  IF n.id # id
           THEN LET r == BodyUpdate(Tail(ns), id, blocks, t, next)
                IN  [notes |-> <<n>> \o r.notes, next |-> r.next]
           ELSE LET upd == [n EXCEPT
                              !.paragraphs = NewParagraphs(n.paragraphs, blocks, t, next),
                              !.updatedAt = t]
                    r == BodyUpdate(Tail(ns), id, blocks, t,
                                    next + Max(0, Len(blocks) - Len(n.paragraphs)))
                IN  [notes |-> <<upd>> \o r.notes, next |-> r.next]

\* updateNoteBody(bodyText) as built over (closureNotes, cur, uid): the snapshot
\* reads the closure's notes, the update maps the live ones.
UpdateNoteBodyWith(bodyText, closureNotes, cur, uid) ==
  LET r == BodyUpdate(notes, cur, BodyBlocks(bodyText), now, nextUuid)
  IN  /\ r.next - 1 <= MaxUuid
      /\ undoSnapshot' = saveUndoSnapshot(closureNotes, cur, undoSnapshot)
      /\ notes' = Rendered(r.notes)
      /\ nextUuid' = r.next
      /\ issued' = PersistAll(Matching(r.notes, cur), uid)
      /\ remote' = Transmit(remote, issued')
      /\ cbUserId' = userId

\* the body editor's onChange
updateNoteBody(bodyText) ==
  /\ FindNote(notes, currentNoteId) # None
  /\ Len(bodyText) <= MaxBody
  /\ UpdateNoteBodyWith(bodyText, notes, currentNoteId, cbUserId)
  /\ op' = "updateNoteBody"
  /\ alertShown' = None
  /\ readyCalled' = FALSE
  /\ UNCHANGED <<currentNoteId, folders, selectedFolderId, selectionRange,
                 bodyTextAtRecord, lastSelection, status, recClosure, mode,
                 pendingFolderDeletes, importPending, userId, now>>
  /\ UNCHANGED restVars

\* handleUndo is memoized with no dependencies: the persistNoteToCloud it calls
\* is the first render's, whose userId is the initial null (App.tsx 22, 233, 507).
MountUserId == NULL

RestoreNoteToCreated(n, snap, t) ==
  [n EXCEPT !.title = snap.title, !.paragraphs = snap.paragraphs,
            !.updatedAt = n.createdAt]

\* handleUndo's replacement of the snapshot's note
RestoreNote(n, snap, t) ==
  [n EXCEPT !.title = snap.title, !.paragraphs = snap.paragraphs, !.updatedAt = t]

ConsumeSlotKept(slot) == slot

\* undoSnapshotRef.current = null
ConsumeSlot(slot) == None

\* The undo button's handler. The button is drawn while canUndo holds; a second
\* click that arrives before the next render finds the slot empty and returns.
handleUndo ==
  /\ IF undoSnapshot = None
     THEN /\ op' = "handleUndoEmpty"
          /\ alertShown' = None
          /\ readyCalled' = FALSE
          /\ issued' = <<>>
          /\ remote' = Transmit(remote, issued')
          /\ UNCHANGED <<notes, undoSnapshot, cbUserId>>
     ELSE /\ LET snap == undoSnapshot[1]
             IN  /\ notes' = Rendered([i \in 1..Len(notes) |->
                                IF notes[i].id = snap.noteId
                                THEN RestoreNote(notes[i], snap, now) ELSE notes[i]])
                 /\ issued' = PersistAll(Matching(notes', snap.noteId), MountUserId)
                 /\ remote' = Transmit(remote, issued')
          /\ undoSnapshot' = ConsumeSlot(undoSnapshot)
          /\ cbUserId' = userId
          /\ op' = "handleUndo"
          /\ alertShown' = None
          /\ readyCalled' = FALSE
  /\ UNCHANGED <<currentNoteId, folders, selectedFolderId, selectionRange,
                 bodyTextAtRecord, lastSelection, status, recClosure, mode,
                 pendingFolderDeletes, importPending, userId, now, nextUuid>>
  /\ UNCHANGED restVars

\* The folder select of the current note; memoized with no dependencies, like handleUndo.
handleMoveNoteToFolder(noteId, folderId) ==
  /\ FindNote(notes, currentNoteId) # None
  /\ noteId = currentNoteId
  /\ folderId \in folders \cup {NULL}
  /\ notes' = Rendered([i \in 1..Len(notes) |->
                 IF notes[i].id # noteId THEN notes[i]
                 ELSE [notes[i] EXCEPT !.folder_id = folderId, !.updatedAt = now]])
  /\ issued' = PersistAll(Matching(notes', noteId), MountUserId)
  /\ remote' = Transmit(remote, issued')
  /\ cbUserId' = userId
  /\ op' = "handleMoveNoteToFolder"
  /\ alertShown' = None
  /\ readyCalled' = FALSE
  /\ UNCHANGED <<currentNoteId, undoSnapshot, folders, selectedFolderId, selectionRange,
                 bodyTextAtRecord, lastSelection, status, recClosure, mode,
                 pendingFolderDeletes, importPending, userId, now, nextUuid>>
  /\ UNCHANGED restVars

\* handleDeleteNote with the prompt confirmed
handleDeleteNote(id) ==
  /\ id \in NoteIds(notes)
  /\ LET filtered == SelectSeq(notes, LAMBDA n : n.id # id)
         cur == IF currentNoteId = id
                THEN (IF Len(filtered) > 0 THEN filtered[1].id ELSE NoId)
                ELSE currentNoteId
     IN  /\ notes' = Rendered(filtered)
         /\ currentNoteId' = cur
         /\ undoSnapshot' = SlotAfter(cur, undoSnapshot)
         /\ selectionRange' = SlotAfter(cur, selectionRange)
  /\ issued' = deleteNoteFromCloud(id, userId)
  /\ remote' = Transmit(remote, issued')
  /\ cbUserId' = userId
  /\ selectedNoteIds' = SetDelete(selectedNoteIds, {id})
  /\ op' = "handleDeleteNote"
  /\ alertShown' = None
  /\ readyCalled' = FALSE
  /\ UNCHANGED <<folders, selectedFolderId, bodyTextAtRecord, lastSelection, status,
                 recClosure, mode, pendingFolderDeletes, importPending, userId, now,
                 nextUuid, selectionMode>>
  /\ UNCHANGED <<authVars, pureVars, sideVars>>

\* setSelectionMode((s) => !s); setSelectedNoteIds(new Set())
handleToggleSelectionMode ==
  /\ selectionMode' = ~selectionMode
  /\ selectedNoteIds' = <<>>
  /\ op' = "handleToggleSelectionMode"
  /\ alertShown' = None
  /\ readyCalled' = FALSE
  /\ issued' = <<>>
  /\ remote' = Transmit(remote, issued')
  /\ UNCHANGED <<notes, currentNoteId, undoSnapshot, folders, selectedFolderId,
                 selectionRange, bodyTextAtRecord, lastSelection, status, recClosure, mode,
                 pendingFolderDeletes, importPending, userId, cbUserId, now, nextUuid>>
  /\ UNCHANGED <<authVars, pureVars, sideVars>>

\* The check box of a listed note: the id leaves the set if it is there, and joins
\* it otherwise.
handleToggleSelectNote(id) ==
  /\ selectedNoteIds' = IF id \in SetMembers(selectedNoteIds)
                        THEN SetDelete(selectedNoteIds, {id})
                        ELSE Append(selectedNoteIds, id)
  /\ op' = "handleToggleSelectNote"
  /\ alertShown' = None
  /\ readyCalled' = FALSE
  /\ issued' = <<>>
  /\ remote' = Transmit(remote, issued')
  /\ UNCHANGED <<notes, currentNoteId, undoSnapshot, folders, selectedFolderId,
                 selectionRange, bodyTextAtRecord, lastSelection, status, recClosure, mode,
                 pendingFolderDeletes, importPending, userId, cbUserId, now, nextUuid,
                 selectionMode>>
  /\ UNCHANGED <<authVars, pureVars, sideVars>>

\* handleDeleteSelected with a selection and the prompt confirmed
handleDeleteSelected ==
  /\ selectedNoteIds # <<>>
  /\ LET remaining == SelectSeq(notes, LAMBDA n : n.id \notin SetMembers(selectedNoteIds))
         cur == IF ~Falsy(currentNoteId) /\ currentNoteId \in SetMembers(selectedNoteIds)
                THEN (IF Len(remaining) > 0 THEN remaining[1].id ELSE NoId)
                ELSE currentNoteId
     IN  /\ notes' = Rendered(remaining)
         /\ currentNoteId' = cur
         /\ undoSnapshot' = SlotAfter(cur, undoSnapshot)
         /\ selectionRange' = SlotAfter(cur, selectionRange)
  /\ selectedNoteIds' = <<>>
  /\ selectionMode' = FALSE
  /\ issued' = DeleteAll(selectedNoteIds, userId)
  /\ remote' = Transmit(remote, issued')
  /\ cbUserId' = userId
  /\ op' = "handleDeleteSelected"
  /\ alertShown' = None
  /\ readyCalled' = FALSE
  /\ UNCHANGED <<folders, selectedFolderId, bodyTextAtRecord, lastSelection, status,
                 recClosure, mode, pendingFolderDeletes, importPending, userId, now,
                 nextUuid>>
  /\ UNCHANGED <<authVars, pureVars, sideVars>>

\* ----------------------------------------------------------------- folders
FolderCall(kind, uid, f) ==
  <<[op |-> kind, user_id |-> uid, id |-> NoId, folder |-> f, note |-> None]>>

\* handleCreateFolder with a name given and the insert answered with the new row
handleCreateFolder(f) ==
  /\ userId # NULL
  /\ f \in FolderIds \ folders
  /\ folders' = folders \cup {f}
  /\ selectedFolderId' = f
  /\ op' = "handleCreateFolder"
  /\ alertShown' = None
  /\ readyCalled' = FALSE
  /\ issued' = FolderCall("insertFolder", userId, f)
  /\ remote' = Transmit(remote, issued')
  /\ UNCHANGED <<notes, currentNoteId, undoSnapshot, selectionRange, bodyTextAtRecord,
                 lastSelection, status, recClosure, mode, pendingFolderDeletes, importPending,
                 userId, cbUserId, now, nextUuid>>
  /\ UNCHANGED restVars

\* onSelectFolder={setSelectedFolderId}
handleSelectFolder(f) ==
  /\ f \in folders \cup {NULL}
  /\ f # selectedFolderId
  /\ selectedFolderId' = f
  /\ notes' = SidebarRender(notes, f, UiShown)
  /\ op' = "handleSelectFolder"
  /\ alertShown' = None
  /\ readyCalled' = FALSE
  /\ issued' = <<>>
  /\ remote' = Transmit(remote, issued')
  /\ UNCHANGED <<currentNoteId, undoSnapshot, folders, selectionRange,
                 bodyTextAtRecord, lastSelection, status, recClosure, mode,
                 pendingFolderDeletes, importPending, userId, cbUserId, now, nextUuid>>
  /\ UNCHANGED restVars

\* What handleDeleteFolder's continuation reads of the render that was clicked:
\* its selectedFolderId and currentNoteId, and of its notes the ids in the folder
\* (deletedNoteIds) and the id of the first note outside it (remaining[0]).
DeleteClosure(f) ==
  LET remaining == SelectSeq(notes, LAMBDA n : n.folder_id # f)
  IN  [folderId |-> f,
       selectedFolderId |-> selectedFolderId,
       currentNoteId |-> currentNoteId,
       deletedNoteIds |-> {notes[i].id : i \in {j \in 1..Len(notes) :
                                                  notes[j].folder_id = f}},
       remainingFirst |-> IF Len(remaining) > 0 THEN remaining[1].id ELSE NoId]

\* handleDeleteFolder up to its await, the prompt confirmed
handleDeleteFolder(f) ==
  /\ f \in folders
  /\ userId # NULL
  /\ Cardinality(pendingFolderDeletes) < MaxPending
  /\ pendingFolderDeletes' = pendingFolderDeletes \cup {DeleteClosure(f)}
  /\ op' = "handleDeleteFolder"
  /\ alertShown' = None
  /\ readyCalled' = FALSE
  /\ issued' = FolderCall("deleteFolder", userId, f)
  /\ remote' = Transmit(remote, issued')
  /\ UNCHANGED <<notes, currentNoteId, undoSnapshot, folders, selectedFolderId,
                 selectionRange, bodyTextAtRecord, lastSelection, status, recClosure,
                 mode, importPending, userId, cbUserId, now, nextUuid>>
  /\ UNCHANGED restVars

\* if (selectedFolderId === folderId) setSelectedFolderId(null), over the closure
FilterAfterDelete(p) ==
  IF p.selectedFolderId = p.folderId THEN NULL ELSE selectedFolderId

\* handleDeleteFolder after its await: the local removal
folderDeleteApplied(p) ==
  /\ p \in pendingFolderDeletes
  /\ pendingFolderDeletes' = pendingFolderDeletes \ {p}
  /\ folders' = folders \ {p.folderId}
  /\ selectedFolderId' = FilterAfterDelete(p)
  /\ notes' = SidebarRender(SelectSeq(notes, LAMBDA n : n.folder_id # p.folderId),
                          FilterAfterDelete(p), UiShown)
  /\ LET cur == IF ~Falsy(p.currentNoteId) /\ p.currentNoteId \in p.deletedNoteIds
                THEN p.remainingFirst
                ELSE currentNoteId
     IN  /\ currentNoteId' = cur
         /\ undoSnapshot' = SlotAfter(cur, undoSnapshot)
         /\ selectionRange' = SlotAfter(cur, selectionRange)
  /\ cbUserId' = userId
  /\ selectedNoteIds' = SetDelete(selectedNoteIds, p.deletedNoteIds)
  /\ op' = "folderDeleteApplied"
  /\ alertShown' = None
  /\ readyCalled' = FALSE
  /\ issued' = <<>>
  /\ remote' = Transmit(remote, issued')
  /\ UNCHANGED <<bodyTextAtRecord, lastSelection, status, recClosure, mode,
                 importPending, userId, now, nextUuid, selectionMode>>
  /\ UNCHANGED <<authVars, pureVars, sideVars>>

\* handleDeleteFolder's catch: the awaited delete rejected
folderDeleteFailed(p) ==
  /\ p \in pendingFolderDeletes
  /\ pendingFolderDeletes' = pendingFolderDeletes \ {p}
  /\ op' = "folderDeleteFailed"
  /\ alertShown' = Some("folderDeleteError")
  /\ readyCalled' = FALSE
  /\ issued' = <<>>
  /\ remote' = Transmit(remote, issued')
  /\ UNCHANGED <<notes, currentNoteId, undoSnapshot, folders, selectedFolderId,
                 selectionRange, bodyTextAtRecord, lastSelection, status, recClosure, mode,
                 importPending, userId, cbUserId, now, nextUuid>>
  /\ UNCHANGED restVars

\* ---------------------------------------------------- failed remote calls
\* A catch that issues the failed call once more.
CatchRemoteRetry(call) == <<call>>

\* catch (err) { console.error(...) } of persistNoteToCloud and deleteNoteFromCloud:
\* the calls the catch issues for the call that failed
CatchRemote(call) == <<>>

\* An upsert or a delete of the notes table, issued by the step before, rejects.
\* The catch reads no state and sets none, so a rejection that arrives later does
\* the same.
remoteCallFailed(k) ==
  /\ k \in 1..Len(issued)
  /\ issued[k].op \in {"upsert", "delete"}
  /\ op' = "remoteCallFailed"
  /\ alertShown' = None
  /\ readyCalled' = FALSE
  /\ issued' = CatchRemote(issued[k])
  /\ remote' = Transmit(remote, issued')
  /\ UNCHANGED <<notes, currentNoteId, undoSnapshot, folders, selectedFolderId,
                 selectionRange, bodyTextAtRecord, lastSelection, status, recClosure,
                 mode, pendingFolderDeletes, importPending, userId, cbUserId, now,
                 nextUuid>>
  /\ UNCHANGED restVars

\* ------------------------------------------------------- declined prompts
\* A handler that goes on as if its prompt had been confirmed.
AfterDeclineIssued(calls) == calls

\* if (!confirm(...)) return: what is left of the calls a handler was about to
\* issue once its prompt is declined
AfterDecline(calls) == <<>>

\* A handler that returns at its prompt: no setState runs, so nothing is rendered.
DeclinedReturn(name, calls) ==
  /\ op' = name
  /\ alertShown' = None
  /\ readyCalled' = FALSE
  /\ issued' = AfterDecline(calls)
  /\ remote' = Transmit(remote, issued')
  /\ UNCHANGED <<notes, currentNoteId, undoSnapshot, folders, selectedFolderId,
                 selectionRange, bodyTextAtRecord, lastSelection, status, recClosure,
                 mode, pendingFolderDeletes, importPending, userId, cbUserId, now,
                 nextUuid>>
  /\ UNCHANGED restVars

\* handleDeleteNote with the prompt declined
handleDeleteNoteDeclined(id) ==
  /\ id \in NoteIds(notes)
  /\ DeclinedReturn("handleDeleteNoteDeclined", deleteNoteFromCloud(id, userId))

\* handleDeleteSelected with a selection and the prompt declined; with nothing
\* selected the handler returns before it asks.
handleDeleteSelectedDeclined ==
  /\ selectedNoteIds # <<>>
  /\ DeclinedReturn("handleDeleteSelectedDeclined", DeleteAll(selectedNoteIds, userId))

\* handleDeleteFolder with the prompt declined; the prompt comes before the
\* check of supabase and userId.
handleDeleteFolderDeclined(f) ==
  /\ f \in folders
  /\ DeclinedReturn("handleDeleteFolderDeclined", FolderCall("deleteFolder", userId, f))

\* ------------------------------------------------------------------ import
ImportIds == {1, 2, UndefId}
\* A note of a backup file: an earlier export, so not newer than anything minted here.
ImportNotes ==
  {[id |-> i, title |-> <<"i">>, paragraphs |-> <<>>, createdAt |-> 0,
    updatedAt |-> 0, folder_id |-> NULL] : i \in ImportIds}

\* for (const note of importedNotes) await persistNoteToCloud({...note, id: note.id || uuid})
RECURSIVE ImportPersist(_, _, _)
ImportPersist(file, uid, next) ==
  IF file = <<>> THEN [calls |-> <<>>, next |-> next]
  ELSE LET n == Head(file)
           minted == Falsy(n.id)
           r == ImportPersist(Tail(file), uid, IF minted THEN next + 1 ELSE next)
       IN  [calls |-> persistNoteToCloud([n EXCEPT !.id = IF minted THEN next ELSE n.id],
                                         uid) \o r.calls,
            next |-> r.next]

\* combined.filter((v, i, a) => a.findIndex(t => t.id === v.id) === i)
FirstById(combined) ==
  LET keep == {i \in 1..Len(combined) :
                 \A j \in 1..(i - 1) : combined[j].id # combined[i].id}
      F[i \in 0..Len(combined)] ==
        IF i = 0 THEN <<>>
        ELSE IF i \in keep THEN Append(F[i - 1], combined[i]) ELSE F[i - 1]
  IN  F[Len(combined)]

ImportMergeExistingFirst(imported, prev) == FirstById(prev \o imported)

ImportMergeAll(imported, prev) == imported \o prev

\* setNotes(prev => unique([...importedNotes, ...prev]))
ImportMerge(imported, prev) == FirstById(imported \o prev)

\* reader.onload up to setNotes: the file parsed as an array and every note handed
\* to persistNoteToCloud, each awaited before the next.
handleImportNotes(file) ==
  /\ importPending = None
  /\ Len(ImportMerge(file, notes)) <= MaxNotes
  /\ LET r == ImportPersist(file, userId, nextUuid)
     IN  /\ r.next - 1 <= MaxUuid
         /\ nextUuid' = r.next
         /\ issued' = r.calls
         /\ remote' = Transmit(remote, issued')
  /\ importPending' = Some(file)
  /\ op' = "handleImportNotes"
  /\ alertShown' = None
  /\ readyCalled' = FALSE
  /\ UNCHANGED <<notes, currentNoteId, undoSnapshot, folders, selectedFolderId,
                 selectionRange, bodyTextAtRecord, lastSelection, status, recClosure, mode,
                 pendingFolderDeletes, userId, cbUserId, now>>
  /\ UNCHANGED restVars

importApplied ==
  /\ importPending # None
  /\ Len(ImportMerge(importPending[1], notes)) <= MaxNotes
  /\ notes' = Rendered(ImportMerge(importPending[1], notes))
  /\ importPending' = None
  /\ cbUserId' = userId
  /\ op' = "importApplied"
  /\ alertShown' = Some("importDone")
  /\ readyCalled' = FALSE
  /\ issued' = <<>>
  /\ remote' = Transmit(remote, issued')
  /\ UNCHANGED <<currentNoteId, undoSnapshot, folders, selectedFolderId, selectionRange,
                 bodyTextAtRecord, lastSelection, status, recClosure, mode,
                 pendingFolderDeletes, userId, now, nextUuid>>
  /\ UNCHANGED restVars

\* Files that are no backup: text that JSON.parse rejects, and JSON that is no
\* array (an object, a number, null).
MalformedFiles == {"notJson", "notArray"}

\* The alert reader.onload raises for such a file: JSON.parse throws into the
\* catch, which alerts; a value that is no array skips the if, and the handler
\* ends.
MalformedAlert(kind) == IF kind = "notJson" THEN Some("formatError") ELSE None

\* reader.onload for a file that is no backup
handleImportMalformed(kind) ==
  /\ importPending = None
  /\ op' = "handleImportMalformed"
  /\ alertShown' = MalformedAlert(kind)
  /\ readyCalled' = FALSE
  /\ issued' = <<>>
  /\ remote' = Transmit(remote, issued')
  /\ UNCHANGED <<notes, currentNoteId, undoSnapshot, folders, selectedFolderId,
                 selectionRange, bodyTextAtRecord, lastSelection, status, recClosure,
                 mode, pendingFolderDeletes, importPending, userId, cbUserId, now,
                 nextUuid>>
  /\ UNCHANGED restVars

\* ------------------------------------------------- selection and recording
\* The text of the model's response: a dictated word.
TranscriptTexts == {<<"b">>}
\* The response may also carry no text.
ResponseTexts == TranscriptTexts \cup {<<>>}

\* Stands for the sentence "Transcription failed. No text returned."
NoTextReturned == <<"F">>

\* transcribeAudio for a response that arrived:
\* return response.text || "Transcription failed. No text returned."
transcribeAudio(responseText) ==
  IF responseText = <<>> THEN NoTextReturned ELSE responseText
\* The live text at stop: nothing heard, or some text.
LiveTexts == {<<>>, <<"b", SP>>}
TitleMax == 30

\* The ranges start <= end an editor showing value can report.
Ranges(value) ==
  {[start |-> s, end |-> e] : s \in 0..Len(value), e \in 0..Len(value)}
    \ {r \in [start : 0..Len(value), end : 0..Len(value)] : r.start > r.end}

\* captureSelection: the body editor's onSelect
captureSelection(r) ==
  /\ FindNote(notes, currentNoteId) # None
  /\ r \in Ranges(BodyOf(notes, currentNoteId))
  /\ lastSelection' = Some([start |-> r.start, end |-> r.end,
                            value |-> BodyOf(notes, currentNoteId)])
  /\ lastSelection' # lastSelection
  /\ op' = "captureSelection"
  /\ alertShown' = None
  /\ readyCalled' = FALSE
  /\ issued' = <<>>
  /\ remote' = Transmit(remote, issued')
  /\ UNCHANGED <<notes, currentNoteId, undoSnapshot, folders, selectedFolderId,
                 selectionRange, bodyTextAtRecord, status, recClosure, mode,
                 pendingFolderDeletes, importPending, userId, cbUserId, now, nextUuid>>
  /\ UNCHANGED restVars

\* setReplacingSelectionRange(range); setReplacingSelectionBody(value);
\* setReplacingSelection(true) of handleRecordingStart's first two cases, and the
\* three resets of its last, for the capture c it decided on.
OverlayAtStart(c) ==
  IF c.range = None THEN None ELSE Some([range |-> c.range[1], body |-> c.body])

\* A recording start whose third case leaves the range of an earlier start in place.
RecordingStartCaptureKept(sel) ==
  LET hasEl == FindNote(notes, currentNoteId) # None
      currentBody == BodyOf(notes, currentNoteId)
  IN  IF hasEl /\ sel.start # sel.end
      THEN [range |-> Some(sel), body |-> currentBody]
      ELSE IF /\ lastSelection # None
              /\ lastSelection[1].start # lastSelection[1].end
              /\ lastSelection[1].value = currentBody
           THEN [range |-> Some([start |-> lastSelection[1].start,
                                 end |-> lastSelection[1].end]),
                 body |-> lastSelection[1].value]
           ELSE [range |-> selectionRange, body |-> bodyTextAtRecord]

\* handleRecordingStart: the range and body it leaves in the two refs, given the
\* range el reports (sel.start = sel.end when nothing is selected).
RecordingStartCapture(sel) ==
  LET hasEl == FindNote(notes, currentNoteId) # None
      currentBody == BodyOf(notes, currentNoteId)
  IN  IF hasEl /\ sel.start # sel.end
      THEN [range |-> Some(sel), body |-> currentBody]
      ELSE IF /\ lastSelection # None
              /\ lastSelection[1].start # lastSelection[1].end
              /\ lastSelection[1].value = currentBody
           THEN [range |-> Some([start |-> lastSelection[1].start,
                                 end |-> lastSelection[1].end]),
                 body |-> lastSelection[1].value]
           ELSE [range |-> None, body |-> bodyTextAtRecord]

\* What a callback built by the render being clicked keeps: the current id, the
\* note saveUndoSnapshot would find, and the userId of its persistNoteToCloud.
RenderClosure ==
  [currentNoteId |-> currentNoteId,
   notes |-> FindNote(notes, currentNoteId),
   userId |-> cbUserId]

setMode(m) ==
  /\ status = "idle"
  /\ FindNote(notes, currentNoteId) # None
  /\ m \in {"standard", "live"} \ {mode}
  /\ mode' = m
  /\ op' = "setMode"
  /\ alertShown' = None
  /\ readyCalled' = FALSE
  /\ issued' = <<>>
  /\ remote' = Transmit(remote, issued')
  /\ UNCHANGED <<notes, currentNoteId, undoSnapshot, folders, selectedFolderId,
                 selectionRange, bodyTextAtRecord, lastSelection, status, recClosure,
                 pendingFolderDeletes, importPending, userId, cbUserId, now, nextUuid>>
  /\ UNCHANGED restVars

\* startRecording: onRecordingStart, then the microphone (standard) or the live
\* session; started tells whether that succeeded.
startRecording(sel, started) ==
  /\ status = "idle"
  /\ FindNote(notes, currentNoteId) # None
  /\ sel \in Ranges(BodyOf(notes, currentNoteId))
  /\ LET c == RecordingStartCapture(sel)
     IN  /\ selectionRange' = c.range
         /\ bodyTextAtRecord' = c.body
         /\ replacingSelection' = OverlayAtStart(c)
  /\ status' = IF started THEN "recording" ELSE "idle"
  /\ recClosure' = IF started /\ mode = "standard" THEN Some(RenderClosure) ELSE None
  /\ op' = IF started THEN "startRecording" ELSE "startRecordingFailed"
  /\ alertShown' = IF started THEN None ELSE Some("micError")
  /\ readyCalled' = FALSE
  /\ issued' = <<>>
  /\ remote' = Transmit(remote, issued')
  /\ elSelection' = Some(sel)
  /\ UNCHANGED <<notes, currentNoteId, undoSnapshot, folders, selectedFolderId,
                 lastSelection, mode, pendingFolderDeletes, importPending, userId,
                 cbUserId, now, nextUuid>>
  /\ transcribed' = None
  /\ UNCHANGED <<authVars, selVars, pureVars, shellVars>>

pauseRecording ==
  /\ mode = "standard" /\ status = "recording" /\ recClosure # None
  /\ FindNote(notes, currentNoteId) # None
  /\ status' = "paused"
  /\ op' = "pauseRecording"
  /\ alertShown' = None
  /\ readyCalled' = FALSE
  /\ issued' = <<>>
  /\ remote' = Transmit(remote, issued')
  /\ UNCHANGED <<notes, currentNoteId, undoSnapshot, folders, selectedFolderId,
                 selectionRange, bodyTextAtRecord, lastSelection, recClosure, mode,
                 pendingFolderDeletes, importPending, userId, cbUserId, now, nextUuid>>
  /\ UNCHANGED restVars

resumeRecording ==
  /\ mode = "standard" /\ status = "paused" /\ recClosure # None
  /\ FindNote(notes, currentNoteId) # None
  /\ status' = "recording"
  /\ op' = "resumeRecording"
  /\ alertShown' = None
  /\ readyCalled' = FALSE
  /\ issued' = <<>>
  /\ remote' = Transmit(remote, issued')
  /\ UNCHANGED <<notes, currentNoteId, undoSnapshot, folders, selectedFolderId,
                 selectionRange, bodyTextAtRecord, lastSelection, recClosure, mode,
                 pendingFolderDeletes, importPending, userId, cbUserId, now, nextUuid>>
  /\ UNCHANGED restVars

\* stopRecording in standard mode: recorder.onstop sets 'transcribing'
stopStandardRecording ==
  /\ mode = "standard" /\ status \in {"recording", "paused"} /\ recClosure # None
  /\ FindNote(notes, currentNoteId) # None
  /\ status' = "transcribing"
  /\ op' = "stopStandardRecording"
  /\ alertShown' = None
  /\ readyCalled' = FALSE
  /\ issued' = <<>>
  /\ remote' = Transmit(remote, issued')
  /\ UNCHANGED <<notes, currentNoteId, undoSnapshot, folders, selectedFolderId,
                 selectionRange, bodyTextAtRecord, lastSelection, recClosure, mode,
                 pendingFolderDeletes, importPending, userId, cbUserId, now, nextUuid>>
  /\ UNCHANGED restVars

\* text.slice(0, 30) + (text.length > 30 ? '...' : '')
TranscriptTitle(text) ==
  Slice(text, 0, TitleMax) \o (IF Len(text) > TitleMax THEN <<".", ".", ".">> ELSE <<>>)

SpliceBodyLive(body, range, text) ==
  LET live == BodyOf(notes, currentNoteId)
  IN  Slice(live, 0, range.start) \o text \o Slice(live, range.end, Len(live))

\* body.slice(0, selection.start) + text + body.slice(selection.end)
SpliceBody(body, range, text) ==
  Slice(body, 0, range.start) \o text \o Slice(body, range.end, Len(body))

\* prev.map(...) of the append path: every matching note gets one new paragraph
RECURSIVE AppendUpdate(_, _, _, _, _)
AppendUpdate(ns, id, text, t, next) ==
  IF ns = <<>> THEN [notes |-> <<>>, next |-> next]
  ELSE LET n == Head(ns)
       IN  IF n.id # id
           THEN LET r == AppendUpdate(Tail(ns), id, text, t, next)
                IN  [notes |-> <<n>> \o r.notes, next |-> r.next]
           ELSE LET upd == [n EXCEPT
                              !.paragraphs = Append(n.paragraphs,
                                 [id |-> next, text |-> text, timestamp |-> t]),
                              !.updatedAt = t]
                    r == AppendUpdate(Tail(ns), id, text, t, next + 1)
                IN  [notes |-> <<upd>> \o r.notes, next |-> r.next]

\* handleTranscriptionComplete(text) as built by the render whose closure is E
handleTranscriptionComplete(text, E) ==
  /\ status' = "idle"
  /\ selectionRange' = None
  /\ IF Falsy(E.currentNoteId)
     THEN LET newNote == [id |-> nextUuid, title |-> TranscriptTitle(text),
                          paragraphs |-> <<[id |-> nextUuid + 1, text |-> text,
                                            timestamp |-> now]>>,
                          createdAt |-> now, updatedAt |-> now, folder_id |-> NULL]
          IN  /\ nextUuid + 1 <= MaxUuid
              /\ Len(notes) < MaxNotes
              /\ notes' = Rendered(<<newNote>> \o notes)
              /\ currentNoteId' = newNote.id
              /\ nextUuid' = nextUuid + 2
              /\ undoSnapshot' = None
              /\ issued' = persistNoteToCloud(newNote, E.userId)
              /\ remote' = Transmit(remote, issued')
              /\ cbUserId' = userId
              /\ op' = "transcriptCreate"
              /\ alertShown' = None
              /\ readyCalled' = FALSE
              /\ UNCHANGED bodyTextAtRecord
     ELSE IF selectionRange # None
     THEN LET newBody == SpliceBody(bodyTextAtRecord, selectionRange[1], text)
          IN  /\ Len(newBody) <= MaxBody
              /\ UpdateNoteBodyWith(newBody, E.notes, E.currentNoteId, E.userId)
              /\ bodyTextAtRecord' = <<>>
              /\ op' = "transcriptSplice"
              /\ alertShown' = None
              /\ readyCalled' = FALSE
              /\ UNCHANGED currentNoteId
     ELSE LET r == AppendUpdate(notes, E.currentNoteId, text, now, nextUuid)
          IN  /\ r.next - 1 <= MaxUuid
              /\ notes' = Rendered(r.notes)
              /\ nextUuid' = r.next
              /\ issued' = PersistAll(Matching(r.notes, E.currentNoteId), E.userId)
              /\ remote' = Transmit(remote, issued')
              /\ cbUserId' = userId
              /\ op' = "transcriptAppend"
              /\ alertShown' = None
              /\ readyCalled' = FALSE
              /\ UNCHANGED <<currentNoteId, undoSnapshot, bodyTextAtRecord>>

\* An onstop that would call the callback of the render on screen at its time.
OnStopClosureOfRender == RenderClosure

\* recorder.onstop calls the onTranscriptionComplete it closed over when it was
\* set, at the start of the recording.
OnStopClosure == recClosure[1]

\* reader.onloadend: transcribeAudio answered, and the callback recorder.onstop
\* kept from the render that started the recording is called with the text.
transcriptionDone(text) ==
  /\ status = "transcribing" /\ recClosure # None
  /\ handleTranscriptionComplete(transcribeAudio(text), OnStopClosure)
  /\ transcribed' = IF text = <<>> THEN Some("noText") ELSE Some("text")
  /\ recClosure' = None
  /\ UNCHANGED <<folders, selectedFolderId, lastSelection, mode, pendingFolderDeletes,
                 importPending, userId, now>>
  /\ replacingSelection' = None
  /\ UNCHANGED <<authVars, selVars, pureVars, elSelection, shellVars>>

\* reader.onloadend's catch: transcribeAudio threw, as it does when generateContent rejects
transcriptionFailed ==
  /\ status = "transcribing" /\ recClosure # None
  /\ status' = "idle"
  /\ recClosure' = None
  /\ op' = "transcriptionFailed"
  /\ alertShown' = Some("transcribeError")
  /\ readyCalled' = FALSE
  /\ issued' = <<>>
  /\ remote' = Transmit(remote, issued')
  /\ UNCHANGED <<notes, currentNoteId, undoSnapshot, folders, selectedFolderId,
                 selectionRange, bodyTextAtRecord, lastSelection, mode,
                 pendingFolderDeletes, importPending, userId, cbUserId, now, nextUuid>>
  /\ transcribed' = Some("throws")
  /\ replacingSelection' = None
  /\ UNCHANGED <<authVars, selVars, pureVars, elSelection, shellVars>>

\* stopLiveRecording from the stop button: the live text, trimmed, if any is left
stopLiveRecording(liveText) ==
  /\ mode = "live" /\ status = "recording"
  /\ FindNote(notes, currentNoteId) # None
  /\ IF Trim(liveText) # <<>>
     THEN handleTranscriptionComplete(Trim(liveText), RenderClosure)
     ELSE /\ status' = "idle"
          /\ op' = "stopLiveRecording"
          /\ alertShown' = None
          /\ readyCalled' = FALSE
          /\ issued' = <<>>
          /\ remote' = Transmit(remote, issued')
          /\ UNCHANGED <<notes, currentNoteId, undoSnapshot, selectionRange,
                         bodyTextAtRecord, cbUserId, nextUuid>>
  /\ UNCHANGED <<folders, selectedFolderId, lastSelection, recClosure, mode,
                 pendingFolderDeletes, importPending, userId, now>>
  /\ transcribed' = None
  /\ replacingSelection' = None
  /\ UNCHANGED <<authVars, selVars, pureVars, elSelection, shellVars>>

\* ------------------------------------------------------------- the session
MaxResolvers == 2

\* What the race of the users lookup with its timeout settles with: a row, an error
\* that says 'No rows', another error, a rejected query, or the timeout.
LookupOutcomes == {"row", "noRows", "error", "throws", "timeout"}
\* The same for the insert: a row, an error, a rejected insert, or the timeout.
CreateOutcomes == {"row", "error", "throws", "timeout"}

\* resolveUserId once the lookup race has settled: the row's id, the insert for an
\* error that names neither a timeout nor 'No rows', the identity itself otherwise.
AfterLookup(outcome, authUserId) ==
  CASE outcome = "row" -> [pc |-> "done", set |-> InternalUserId]
    [] outcome = "error" -> [pc |-> "create", set |-> NULL]
    [] OTHER -> [pc |-> "done", set |-> authUserId]

AfterCreateUnraced(outcome, authUserId) ==
  CASE outcome = "row" -> [pc |-> "done", set |-> InternalUserId]
    [] outcome = "timeout" -> [pc |-> "hung", set |-> NULL]
    [] OTHER -> [pc |-> "done", set |-> authUserId]

\* resolveUserId once the insert race has settled: the new row's id, or the fallback
AfterCreate(outcome, authUserId) ==
  IF outcome = "row" THEN [pc |-> "done", set |-> InternalUserId]
  ELSE [pc |-> "done", set |-> authUserId]

\* supabase.from('notes').select('*').eq('user_id', uid)
SelectNotesCall(uid) ==
  [op |-> "select", user_id |-> uid, id |-> NoId, folder |-> NULL, note |-> None]

\* supabase.from('folders').select(...): the query names no user
SelectFoldersCall ==
  [op |-> "selectFolders", user_id |-> NULL, id |-> NoId, folder |-> NULL, note |-> None]

LoadNotesEffectEveryRender(prev, next) ==
  IF next # NULL THEN <<SelectNotesCall(next), SelectFoldersCall>> ELSE <<>>

\* useEffect(() => { if (!userId) return; loadNotes(); loadFolders() }, [userId]),
\* for a render that finds userId at next after prev.
LoadNotesEffect(prev, next) ==
  IF next # NULL /\ next # prev THEN <<SelectNotesCall(next), SelectFoldersCall>>
  ELSE <<>>

\* A render whose userId is next: the effect, its calls and setNotesLoading(true).
RunLoadEffect(next, loadingElse) ==
  LET calls == LoadNotesEffect(userId, next)
  IN  /\ issued' = calls
      /\ remote' = Transmit(remote, issued')
      /\ loadsInFlight' = loadsInFlight \cup {calls[i] : i \in 1..Len(calls)}
      /\ notesLoading' = IF calls # <<>> THEN TRUE ELSE loadingElse

StartResolver(authUserId) ==
  Append(resolvers, [pc |-> "lookup", auth |-> authUserId, set |-> NULL])

\* useEffect(() => { if (!loading && user && userId) notifyAppReady() },
\* [loading, user, userId]) for the render that follows a step; setUser tells whether
\* the step handed setUser a session's user object, which is a new one every time.
NotifyReadyEffect(setUser) ==
  readyCalled' = (/\ setUser \/ loading' # loading \/ user' # user \/ userId' # userId
                  /\ ~loading'
                  /\ user' # NULL
                  /\ userId' # NULL)

\* initAuth: getSession answered, with a session or without
initAuth(hasSession) ==
  /\ loading
  /\ loading' = FALSE
  /\ IF hasSession
     THEN /\ Len(resolvers) < MaxResolvers
          /\ user' = AuthIdentity
          /\ resolvers' = StartResolver(AuthIdentity)
     ELSE UNCHANGED <<user, resolvers>>
  /\ RunLoadEffect(userId, notesLoading)
  /\ op' = "initAuth"
  /\ alertShown' = None
  /\ UNCHANGED <<currentNoteId, undoSnapshot, folders, selectedFolderId,
                 selectionRange, bodyTextAtRecord, lastSelection, status, recClosure, mode,
                 pendingFolderDeletes, importPending, userId, cbUserId, now, nextUuid,
                 notesLoadedOnce>>
  /\ notes' = SidebarRender(notes, selectedFolderId, UiShown')
  /\ UNCHANGED <<selVars, pureVars, sideVars>>
  /\ NotifyReadyEffect(hasSession)

\* onAuthStateChange with a session: sign-in, the initial session, a token refresh
authSignedIn ==
  /\ Len(resolvers) < MaxResolvers
  /\ user' = AuthIdentity
  /\ resolvers' = StartResolver(AuthIdentity)
  /\ RunLoadEffect(userId, notesLoading)
  /\ op' = "authSignedIn"
  /\ alertShown' = None
  /\ UNCHANGED <<currentNoteId, undoSnapshot, folders, selectedFolderId,
                 selectionRange, bodyTextAtRecord, lastSelection, status, recClosure, mode,
                 pendingFolderDeletes, importPending, userId, cbUserId, now, nextUuid,
                 loading, notesLoadedOnce>>
  /\ notes' = SidebarRender(notes, selectedFolderId, UiShown')
  /\ UNCHANGED <<selVars, pureVars, sideVars>>
  /\ NotifyReadyEffect(TRUE)

\* onAuthStateChange('SIGNED_OUT') with no session
authSignedOut ==
  /\ user' = NULL
  /\ userId' = NULL
  /\ notes' = <<>>
  /\ currentNoteId' = NoId
  /\ undoSnapshot' = SlotAfter(NoId, undoSnapshot)
  /\ selectionRange' = SlotAfter(NoId, selectionRange)
  /\ cbUserId' = NULL
  /\ notesLoadedOnce' = FALSE
  /\ RunLoadEffect(NULL, FALSE)
  /\ op' = "authSignedOut"
  /\ alertShown' = None
  /\ UNCHANGED <<folders, selectedFolderId, bodyTextAtRecord, lastSelection, status,
                 recClosure, mode, pendingFolderDeletes, importPending, now, nextUuid,
                 loading, resolvers>>
  /\ UNCHANGED <<selVars, pureVars, sideVars>>
  /\ NotifyReadyEffect(FALSE)

\* handleLogout with the prompt confirmed; signOut() runs in the background and
\* answers with the SIGNED_OUT event.
handleLogout ==
  /\ user' = NULL
  /\ userId' = NULL
  /\ notes' = <<>>
  /\ currentNoteId' = NoId
  /\ undoSnapshot' = SlotAfter(NoId, undoSnapshot)
  /\ selectionRange' = SlotAfter(NoId, selectionRange)
  /\ cbUserId' = NULL
  /\ folders' = {}
  /\ selectedFolderId' = NULL
  /\ RunLoadEffect(NULL, FALSE)
  /\ selectionMode' = FALSE
  /\ selectedNoteIds' = <<>>
  /\ op' = "handleLogout"
  /\ alertShown' = None
  /\ UNCHANGED <<bodyTextAtRecord, lastSelection, status, recClosure, mode,
                 pendingFolderDeletes, importPending, now, nextUuid, loading,
                 notesLoadedOnce, resolvers>>
  /\ UNCHANGED <<pureVars, sideVars>>
  /\ NotifyReadyEffect(FALSE)

\* A resolver step's setUserId(id), and the load effect of the render that follows.
ResolverSettled(i, r) ==
  /\ resolvers' = [resolvers EXCEPT ![i].pc = r.pc, ![i].set = r.set]
  /\ LET id == IF r.pc = "done" THEN r.set ELSE userId
     IN  /\ userId' = id
         /\ RunLoadEffect(id, notesLoading)
  /\ UNCHANGED <<currentNoteId, undoSnapshot, folders, selectedFolderId,
                 selectionRange, bodyTextAtRecord, lastSelection, status, recClosure, mode,
                 pendingFolderDeletes, importPending, cbUserId, now, nextUuid, user,
                 loading, notesLoadedOnce>>
  /\ notes' = SidebarRender(notes, selectedFolderId, UiShown')
  /\ UNCHANGED <<selVars, pureVars, sideVars>>
  /\ NotifyReadyEffect(FALSE)

\* await Promise.race([queryPromise, timeout]) of invocation i settles
lookupSettled(i, outcome) ==
  /\ i \in 1..Len(resolvers)
  /\ resolvers[i].pc = "lookup"
  /\ ResolverSettled(i, AfterLookup(outcome, resolvers[i].auth))
  /\ op' = "lookupSettled"
  /\ alertShown' = None

\* await Promise.race([createPromise, createTimeout]) of invocation i settles
createSettled(i, outcome) ==
  /\ i \in 1..Len(resolvers)
  /\ resolvers[i].pc = "create"
  /\ ResolverSettled(i, AfterCreate(outcome, resolvers[i].auth))
  /\ op' = "createSettled"
  /\ alertShown' = None

\* A note as a row of the notes table gives it.
LoadedNote ==
  [id |-> 1, title |-> NewNoteTitle, paragraphs |-> <<>>, createdAt |-> 0,
   updatedAt |-> 0, folder_id |-> NULL]

\* What a notes select can answer: an error, or the rows (none, or one note).
LoadAnswers == {None, Some(<<>>), Some(<<LoadedNote>>)}

\* A second row of the table, updated after the first.
RecentNote ==
  [id |-> 2, title |-> <<"r">>, paragraphs |-> <<>>, createdAt |-> 0,
   updatedAt |-> 1, folder_id |-> NULL]

\* The answers of a select over a table of two rows, in the order the query asks
\* for: updated_at descending.
LoadRows == LoadAnswers \cup {Some(<<RecentNote, LoadedNote>>)}

\* A third row, as old as the first.
OldestNote ==
  [id |-> 3, title |-> <<"o">>, paragraphs |-> <<>>, createdAt |-> 0,
   updatedAt |-> 0, folder_id |-> NULL]

\* The answer of the select over a table of three rows, updated_at descending.
ThreeRows == Some(<<RecentNote, LoadedNote, OldestNote>>)

\* loadNotes after its await
loadNotesAnswered(l, answer) ==
  /\ l \in loadsInFlight
  /\ l.op = "select"
  /\ loadsInFlight' = loadsInFlight \ {l}
  /\ notesLoading' = FALSE
  /\ notesLoadedOnce' = TRUE
  /\ op' = IF answer = None THEN "loadNotesFailed" ELSE "loadNotesAnswered"
  /\ alertShown' = None
  /\ issued' = <<>>
  /\ remote' = Transmit(remote, issued')
  /\ UNCHANGED <<folders, selectedFolderId, bodyTextAtRecord, lastSelection, status,
                 recClosure, mode, pendingFolderDeletes, importPending, userId, now,
                 nextUuid, user, loading, resolvers>>
  /\ IF answer = None
     THEN /\ notes' = SidebarRender(notes, selectedFolderId, UiShown')
          /\ UNCHANGED <<currentNoteId, undoSnapshot, selectionRange, cbUserId>>
     ELSE LET mapped == answer[1]
              cur == IF Len(mapped) > 0 THEN mapped[1].id ELSE currentNoteId
          IN  /\ notes' = SidebarRender(mapped, selectedFolderId, UiShown')
              /\ currentNoteId' = cur
              /\ undoSnapshot' = SlotAfter(cur, undoSnapshot)
              /\ selectionRange' = SlotAfter(cur, selectionRange)
              /\ cbUserId' = userId
  /\ UNCHANGED <<selVars, pureVars, sideVars>>
  /\ NotifyReadyEffect(FALSE)

\* loadFolders after its await: the rows, or [] for an error
loadFoldersAnswered(l, rows) ==
  /\ l \in loadsInFlight
  /\ l.op = "selectFolders"
  /\ loadsInFlight' = loadsInFlight \ {l}
  /\ folders' = rows
  /\ op' = "loadFoldersAnswered"
  /\ alertShown' = None
  /\ issued' = <<>>
  /\ remote' = Transmit(remote, issued')
  /\ UNCHANGED <<notes, currentNoteId, undoSnapshot, selectedFolderId, selectionRange,
                 bodyTextAtRecord, lastSelection, status, recClosure, mode,
                 pendingFolderDeletes, importPending, userId, cbUserId, now, nextUuid,
                 user, loading, notesLoading, notesLoadedOnce, resolvers>>
  /\ UNCHANGED <<selVars, pureVars, sideVars>>
  /\ NotifyReadyEffect(FALSE)

\* ------------------------------------------------------ the update dialog
\* { available: false }
NoUpdate == [available |-> FALSE]

\* applyUpdate: await downloadBundle, await setNextBundle, await reload.
ApplySteps == <<"downloadBundle", "setNextBundle", "reload">>

\* What the update handlers leave alone.
UpdateFrame ==
  /\ alertShown' = None
  /\ readyCalled' = FALSE
  /\ issued' = <<>>
  /\ remote' = Transmit(remote, issued')
  /\ UNCHANGED <<notes, currentNoteId, undoSnapshot, folders, selectedFolderId,
                 selectionRange, bodyTextAtRecord, lastSelection, status, recClosure,
                 mode, pendingFolderDeletes, importPending, userId, cbUserId, now,
                 nextUuid>>
  /\ UNCHANGED <<authVars, selVars, pureVars, elSelection, transcribed,
                 replacingSelection>>

\* The results a check can resolve with in a session.
CheckResults ==
  {NoUpdate, [available |-> TRUE, version |-> <<"2">>, url |-> <<"u">>]}

\* checkForUpdate().then(...) of the effect on [userId], not cancelled
updateCheckAnswered(result) ==
  /\ userId # NULL
  /\ updateAvailable' = IF result.available THEN Some(result) ELSE updateAvailable
  /\ op' = "updateCheckAnswered"
  /\ UNCHANGED <<updateUpdating, appliesInFlight, applyCalls>>
  /\ UpdateFrame

\* onLater={() => setUpdateAvailable(null)}
handleUpdateLater ==
  /\ updateAvailable # None
  /\ updateAvailable' = None
  /\ op' = "handleUpdateLater"
  /\ UNCHANGED <<updateUpdating, appliesInFlight, applyCalls>>
  /\ UpdateFrame

\* A handler that starts an apply whenever an update is on offer.
ConfirmStartsWhileUpdating(avail, updating) == avail # None /\ avail[1].available

\* if (!updateAvailable || !updateAvailable.available || updateUpdating) return
ConfirmStarts(avail, updating) ==
  avail # None /\ avail[1].available /\ ~updating

\* handleUpdateConfirm up to its await: the dialog is drawn while an update is on
\* offer, and the handler is rebuilt by every render that changes either state.
handleUpdateConfirm ==
  /\ updateAvailable # None
  /\ appliesInFlight < MaxApplies
  /\ IF ConfirmStarts(updateAvailable, updateUpdating)
     THEN /\ updateUpdating' = TRUE
          /\ appliesInFlight' = appliesInFlight + 1
          /\ applyCalls' = Append(applyCalls, <<ApplySteps[1]>>)
          /\ op' = "handleUpdateConfirm"
     ELSE /\ UNCHANGED <<updateUpdating, appliesInFlight, applyCalls>>
          /\ op' = "handleUpdateConfirmIgnored"
  /\ UNCHANGED updateAvailable
  /\ UpdateFrame

\* The plugin call an apply is waiting for resolves, and the apply makes its next.
applyStepDone(i) ==
  /\ i \in 1..Len(applyCalls)
  /\ Len(applyCalls[i]) < Len(ApplySteps)
  /\ applyCalls' = [applyCalls EXCEPT ![i] = Append(@, ApplySteps[Len(@) + 1])]
  /\ op' = "applyStepDone"
  /\ UNCHANGED <<updateAvailable, updateUpdating, appliesInFlight>>
  /\ UpdateFrame

\* An applyUpdate whose every step has its own catch: after a rejection it goes
\* on to the next call.
RejectedApplyGoesOn(applies, i) ==
  IF Len(applies[i]) < Len(ApplySteps)
  THEN [applies EXCEPT ![i] = Append(@, ApplySteps[Len(@) + 1])]
  ELSE RemoveAt(applies, i)

\* The plugin call apply i is waiting for rejects: the await throws, applyUpdate
\* makes no further call and rejects.
RejectedApply(applies, i) == RemoveAt(applies, i)

\* applyUpdate rejects: catch { setUpdateUpdating(false) }
applyFailed ==
  /\ appliesInFlight > 0
  /\ appliesInFlight' = appliesInFlight - 1
  /\ \E i \in 1..Len(applyCalls) : applyCalls' = RejectedApply(applyCalls, i)
  /\ updateUpdating' = FALSE
  /\ op' = "applyFailed"
  /\ UNCHANGED updateAvailable
  /\ UpdateFrame

\* ------------------------------------------------------------------ inputs
\* What the body editor's onChange can deliver.
BodyInputs == {<<>>, <<"a">>, <<"a", NL, NL, "b">>}
\* The same, for the runs about timestamps: clearing the body, or one block.
StoreBodyInputs == {<<>>, <<"a">>}

ImportFiles == SeqsUpTo(ImportNotes, MaxImport) \ {<<>>}

\* A backup file holds ids that were minted before it was written, or none:
\* crypto.randomUUID() does not return an id a second time.
ImportableFiles ==
  {file \in ImportFiles : \A i \in 1..Len(file) : file[i].id < nextUuid}

\* The selections tried at a recording's start: none, the whole body, one inside it.
RecordRanges(value) ==
  {[start |-> 0, end |-> 0], [start |-> 0, end |-> Len(value)], [start |-> 1, end |-> 2]}
    \cap Ranges(value)

\* ------------------------------------------------------------ initial states
\* The editor, the recorder and the folders as the first render leaves them.
EditorIdle ==
  /\ undoSnapshot = None
  /\ folders = {}
  /\ selectedFolderId = NULL
  /\ selectionRange = None
  /\ bodyTextAtRecord = <<>>
  /\ lastSelection = None
  /\ status = "idle"
  /\ recClosure = None
  /\ mode = "standard"
  /\ pendingFolderDeletes = {}
  /\ importPending = None
  /\ selectionMode = FALSE
  /\ alertShown = None
  /\ readyCalled = FALSE
  /\ elSelection = None
  /\ transcribed = None
  /\ replacingSelection = None
  /\ updateAvailable = None
  /\ updateUpdating = FALSE
  /\ appliesInFlight = 0
  /\ applyCalls = <<>>
  /\ selectedNoteIds = <<>>
  /\ now = 1
  /\ op = "init"
  /\ issued = <<>>

\* Signed in, the identity resolved to the user row, and the first load answered.
SessionReady ==
  /\ user = AuthIdentity
  /\ loading = FALSE
  /\ userId = InternalUserId
  /\ cbUserId = InternalUserId
  /\ notesLoading = FALSE
  /\ notesLoadedOnce = TRUE
  /\ resolvers = <<[pc |-> "done", auth |-> AuthIdentity, set |-> InternalUserId]>>
  /\ loadsInFlight = {}

\* The load answered with no rows.
InitStore ==
  /\ notes = <<>>
  /\ currentNoteId = NoId
  /\ nextUuid = 1
  /\ EditorIdle
  /\ SessionReady

\* The load answered with one row, which it made the current note.
InitLoaded ==
  /\ notes = <<LoadedNote>>
  /\ currentNoteId = LoadedNote.id
  /\ nextUuid = 2
  /\ EditorIdle
  /\ SessionReady

\* The component as mounted: useState's initial values.
InitMount ==
  /\ notes = <<>>
  /\ currentNoteId = NoId
  /\ nextUuid = 2
  /\ EditorIdle
  /\ user = NULL
  /\ loading = TRUE
  /\ userId = NULL
  /\ cbUserId = NULL
  /\ notesLoading = FALSE
  /\ notesLoadedOnce = FALSE
  /\ resolvers = <<>>
  /\ loadsInFlight = {}

Init == InitStore /\ PureIdle /\ remote = None

InitEdit == InitLoaded /\ PureIdle /\ remote = None

InitAuth == InitMount /\ PureIdle /\ remote = None

\* applyUpdate resolves: LiveUpdate.reload() has started the web view again, and
\* the application is as it is when it mounts.
applyReloaded ==
  /\ appliesInFlight > 0
  /\ \E i \in 1..Len(applyCalls) : applyCalls[i] = ApplySteps
  /\ applyCalls' = <<>>
  /\ notes' = <<>>
  /\ currentNoteId' = NoId
  /\ undoSnapshot' = None
  /\ folders' = {}
  /\ selectedFolderId' = NULL
  /\ selectionRange' = None
  /\ bodyTextAtRecord' = <<>>
  /\ lastSelection' = None
  /\ status' = "idle"
  /\ recClosure' = None
  /\ mode' = "standard"
  /\ pendingFolderDeletes' = {}
  /\ importPending' = None
  /\ selectionMode' = FALSE
  /\ selectedNoteIds' = <<>>
  /\ elSelection' = None
  /\ transcribed' = None
  /\ replacingSelection' = None
  /\ updateAvailable' = None
  /\ updateUpdating' = FALSE
  /\ appliesInFlight' = 0
  /\ user' = NULL
  /\ loading' = TRUE
  /\ userId' = NULL
  /\ cbUserId' = NULL
  /\ notesLoading' = FALSE
  /\ notesLoadedOnce' = FALSE
  /\ resolvers' = <<>>
  /\ loadsInFlight' = {}
  /\ op' = "applyReloaded"
  /\ alertShown' = None
  /\ readyCalled' = FALSE
  /\ issued' = <<>>
  /\ remote' = Transmit(remote, issued')
  /\ UNCHANGED <<now, nextUuid, pureVars>>

\* ------------------------------------------------------------ action groups
\* Creating, selecting and deleting notes.
CollectionNext ==
  \/ handleNewNote
  \/ \E id \in ListedIds : handleSelectNote(id)
  \/ \E id \in ListedIds : handleDeleteNote(id)

\* The title, the body and undo.
EditNext(bodies) ==
  \/ \E t \in TitleInputs : updateTitle(t)
  \/ \E b \in bodies : updateNoteBody(b)
  \/ handleUndo

\* Folders and the move of the current note.
FolderNext ==
  \/ \E f \in folders \cup {NULL} : handleMoveNoteToFolder(currentNoteId, f)
  \/ \E f \in FolderIds : handleCreateFolder(f)
  \/ \E f \in folders \cup {NULL} : handleSelectFolder(f)
  \/ \E f \in folders : handleDeleteFolder(f)
  \/ \E p \in pendingFolderDeletes : folderDeleteApplied(p)
  \/ \E p \in pendingFolderDeletes : folderDeleteFailed(p)

\* The list's check boxes and the deletion of the checked notes.
SelectModeNext ==
  \/ handleToggleSelectionMode
  \/ \E id \in ListedIds : handleToggleSelectNote(id)
  \/ handleDeleteSelected

ImportNext ==
  \/ \E file \in ImportableFiles : handleImportNotes(file)
  \/ importApplied

\* The body editor's onSelect.
SelectionNext ==
  \E r \in Ranges(BodyOf(notes, currentNoteId)) : captureSelection(r)

\* The recorder: its mode, a recording from start to stop, and the transcript.
RecorderNext(ranges) ==
  \/ \E m \in {"standard", "live"} : setMode(m)
  \/ \E r \in ranges, started \in BOOLEAN : startRecording(r, started)
  \/ pauseRecording
  \/ resumeRecording
  \/ stopStandardRecording
  \/ \E text \in TranscriptTexts : transcriptionDone(text)
  \/ transcriptionFailed
  \/ \E text \in LiveTexts : stopLiveRecording(text)

\* The session: the initial check, the auth events, the resolver and the loads.
SessionNext ==
  \/ \E hasSession \in BOOLEAN : initAuth(hasSession)
  \/ authSignedIn
  \/ authSignedOut
  \/ UiShown /\ handleLogout
  \/ \E i \in 1..MaxResolvers, o \in LookupOutcomes : lookupSettled(i, o)
  \/ \E i \in 1..MaxResolvers, o \in CreateOutcomes : createSettled(i, o)
  \/ \E l \in loadsInFlight, a \in LoadAnswers : loadNotesAnswered(l, a)
  \/ \E l \in loadsInFlight, rows \in {{}, FolderIds} : loadFoldersAnswered(l, rows)

\* --------------------------------------------------------------------- Spec
\* Every operation of the application, from a signed-in session.
Next ==
  \/ Tick
  \/ CollectionNext
  \/ EditNext(BodyInputs)
  \/ FolderNext
  \/ SelectModeNext
  \/ ImportNext
  \/ SelectionNext
  \/ RecorderNext(Ranges(BodyOf(notes, currentNoteId)))
  \/ SessionNext

Spec == Init /\ [][Next]_vars

\* SpecEdit: editing and dictating into one loaded note.
NextEdit ==
  \/ EditNext(BodyInputs)
  \/ RecorderNext(RecordRanges(BodyOf(notes, currentNoteId)))

SpecEdit == InitEdit /\ [][NextEdit]_vars

\* SpecClock: every operation that stamps updatedAt, with the clock moving.
NextClock ==
  \/ Tick
  \/ EditNext(StoreBodyInputs)
  \/ handleMoveNoteToFolder(currentNoteId, NULL)
  \/ ImportNext
  \/ \E m \in {"standard", "live"} : setMode(m)
  \/ mode = "live" /\ startRecording([start |-> 0, end |-> 0], TRUE)
  \/ \E text \in LiveTexts : stopLiveRecording(text)

SpecClock == InitEdit /\ [][NextClock]_vars

\* SpecFolders: the collection and its folders.
NextFolders == CollectionNext \/ FolderNext

SpecFolders == Init /\ [][NextFolders]_vars

\* SpecImport: the collection, the title and import.
NextImport ==
  \/ CollectionNext
  \/ \E t \in TitleInputs : updateTitle(t)
  \/ ImportNext

SpecImport == Init /\ [][NextImport]_vars

\* SpecAuth: the session from mount on, and the note operations that call the store.
NextAuth ==
  \/ SessionNext
  \/ UiShown /\ handleNewNote
  \/ UiShown /\ \E id \in ListedIds : handleDeleteNote(id)

SpecAuth == InitAuth /\ [][NextAuth]_vars

\* SpecSessionEdit: the session from mount on, with the collection, the title and
\* undo once the main screen is shown.
NextSessionEdit ==
  \/ SessionNext
  \/ UiShown /\ CollectionNext
  \/ UiShown /\ \E t \in TitleInputs : updateTitle(t)
  \/ UiShown /\ handleUndo

SpecSessionEdit == InitAuth /\ [][NextSessionEdit]_vars

\* SpecCollection: every operation that adds notes to the collection or removes
\* them, from a signed-in session: a later auth event and the load it brings,
\* create, delete, import, a folder and its removal, undo, a live transcript.
NextCollection ==
  \/ authSignedIn
  \/ \E i \in 1..MaxResolvers : lookupSettled(i, "timeout")
  \/ \E l \in loadsInFlight, a \in LoadAnswers : loadNotesAnswered(l, a)
  \/ \E l \in loadsInFlight, rows \in {{}, FolderIds} : loadFoldersAnswered(l, rows)
  \/ UiShown /\ handleNewNote
  \/ UiShown /\ \E id \in ListedIds : handleDeleteNote(id)
  \/ UiShown /\ ImportNext
  \/ UiShown /\ \E f \in FolderIds : handleCreateFolder(f)
  \/ UiShown /\ \E f \in folders : handleDeleteFolder(f)
  \/ \E p \in pendingFolderDeletes : folderDeleteApplied(p)
  \/ UiShown /\ \E t \in TitleInputs : updateTitle(t)
  \/ UiShown /\ handleUndo

SpecCollection == InitEdit /\ [][NextCollection]_vars

\* SpecLoad: the session from mount on over a table of two rows, and the choice
\* of a note once the main screen is shown.
NextLoad ==
  \/ \E hasSession \in BOOLEAN : initAuth(hasSession)
  \/ authSignedIn
  \/ authSignedOut
  \/ UiShown /\ handleLogout
  \/ \E i \in 1..MaxResolvers, o \in LookupOutcomes : lookupSettled(i, o)
  \/ \E i \in 1..MaxResolvers, o \in CreateOutcomes : createSettled(i, o)
  \/ \E l \in loadsInFlight, a \in LoadRows : loadNotesAnswered(l, a)
  \/ \E l \in loadsInFlight, rows \in {{}, FolderIds} : loadFoldersAnswered(l, rows)
  \/ UiShown /\ \E id \in ListedIds : handleSelectNote(id)

SpecLoad == InitAuth /\ [][NextLoad]_vars

\* SpecSessionWrite: SpecSessionEdit with the body editor.
NextSessionWrite ==
  \/ NextSessionEdit
  \/ UiShown /\ \E b \in StoreBodyInputs : updateNoteBody(b)

SpecSessionWrite == InitAuth /\ [][NextSessionWrite]_vars

\* SpecDictate: dictation with nothing selected, over a collection whose notes
\* are created, selected and deleted while a recording runs or is transcribed.
NextDictate ==
  \/ CollectionNext
  \/ \E m \in {"standard", "live"} : setMode(m)
  \/ \E started \in BOOLEAN : startRecording([start |-> 0, end |-> 0], started)
  \/ pauseRecording
  \/ resumeRecording
  \/ stopStandardRecording
  \/ \E text \in TranscriptTexts : transcriptionDone(text)
  \/ transcriptionFailed
  \/ \E text \in LiveTexts : stopLiveRecording(text)

SpecDictate == InitEdit /\ [][NextDictate]_vars

\* SpecDelete: a session that loads three rows, then the list under a folder filter:
\* the choice of a note, its title, its folder and its deletion.
NextDelete ==
  \/ initAuth(TRUE)
  \/ \E i \in 1..MaxResolvers : lookupSettled(i, "row")
  \/ \E l \in loadsInFlight : loadNotesAnswered(l, ThreeRows)
  \/ \E l \in loadsInFlight : loadFoldersAnswered(l, {})
  \/ UiShown /\ \E id \in ListedIds : handleSelectNote(id)
  \/ UiShown /\ \E t \in TitleInputs : updateTitle(t)
  \/ UiShown /\ \E id \in ListedIds : handleDeleteNote(id)
  \/ UiShown /\ \E f \in FolderIds : handleCreateFolder(f)
  \/ UiShown /\ \E f \in folders \cup {NULL} : handleSelectFolder(f)
  \/ UiShown /\ \E f \in folders \cup {NULL} : handleMoveNoteToFolder(currentNoteId, f)

SpecDelete == InitAuth /\ [][NextDelete]_vars

\* SpecDeleteMany: a session that loads three rows, signs out and in again, and the
\* list's check boxes: the selection mode, the checked notes and their deletion.
NextDeleteMany ==
  \/ initAuth(TRUE)
  \/ authSignedOut
  \/ authSignedIn
  \/ \E i \in 1..MaxResolvers : lookupSettled(i, "row")
  \/ \E l \in loadsInFlight : loadNotesAnswered(l, ThreeRows)
  \/ \E l \in loadsInFlight : loadFoldersAnswered(l, {})
  \/ UiShown /\ \E id \in ListedIds : handleSelectNote(id)
  \/ UiShown /\ \E id \in ListedIds : handleDeleteNote(id)
  \/ UiShown /\ SelectModeNext

SpecDeleteMany == InitAuth /\ [][NextDeleteMany]_vars

\* The timers of the two races fire, so a pending race settles.
ResolverFairness ==
  \A i \in 1..MaxResolvers :
    /\ WF_vars(\E o \in LookupOutcomes : lookupSettled(i, o))
    /\ WF_vars(\E o \in CreateOutcomes : createSettled(i, o))

SpecAuthFair == SpecAuth /\ ResolverFairness

\* --------------------------------------------------- SpecVersion: compare
StoreIdle == InitStore /\ remote = None

VersionStrings == StringsUpTo(VerChars, MaxVerLen)

InitVersion ==
  /\ verA \in VersionStrings
  /\ verB \in VersionStrings
  /\ verOut = None
  /\ rtIn = <<>> /\ rtOut = None
  /\ updIn = None /\ updOut = None
  /\ StoreIdle

\* checkForUpdate's call compareVersions(remoteVersion, currentVersion)
CompareStep ==
  /\ verOut = None
  /\ verOut' = Some(compareVersions(verA, verB))
  /\ UNCHANGED <<verA, verB, rtIn, rtOut, updIn, updOut>>
  /\ UNCHANGED <<storeVars, authVars, selVars, sideVars, remote>>

NextVersion == CompareStep

SpecVersion == InitVersion /\ [][NextVersion]_vars

\* ------------------------------------------- SpecRoundTrip: body round trip
\* Paragraph texts as the append path can leave them: any text that is not empty.
RtTexts == StringsUpTo(TextChars, RtMaxLen) \ {<<>>}

InitRoundTrip ==
  /\ \E n \in 0..RtMaxParas : rtIn \in [1..n -> RtTexts]
  /\ rtOut = None
  /\ verA = <<>> /\ verB = <<>> /\ verOut = None
  /\ updIn = None /\ updOut = None
  /\ StoreIdle

\* The editor shows the joined body (App.tsx 914) and an edit event hands it to
\* updateNoteBody, which re-derives the blocks (App.tsx 589).
RoundTripStep ==
  /\ rtOut = None
  /\ rtOut' = Some(BodyBlocks(JoinParas(rtIn)))
  /\ UNCHANGED <<verA, verB, verOut, rtIn, updIn, updOut>>
  /\ UNCHANGED <<storeVars, authVars, selVars, sideVars, remote>>

NextRoundTrip == RoundTripStep

SpecRoundTrip == InitRoundTrip /\ [][NextRoundTrip]_vars

\* ------------------------------------------- SpecUpdate: checkForUpdate
\* Version strings of the update check: digits 1 and 2 and dots, so that "1." and
\* "1" name the same version and ".1" an older one.
UpdVersions == StringsUpTo({"1", "2", "."}, UpdMaxLen) \ {<<>>}

\* What one run of checkForUpdate meets: the platform, VITE_UPDATE_MANIFEST_URL,
\* how the fetch goes, the manifest's two fields (None for a missing one), and
\* what the plugin answers (None for null) or that it rejects.
UpdInputs ==
  [native : BOOLEAN,
   configured : BOOLEAN,
   fetch : {"rejects", "notOk", "badJson", "ok"},
   version : {None, Some(<<SP>>), Some(<<SP, "2">>)} \cup {Some(v) : v \in UpdVersions},
   url : {None, Some(<<SP>>), Some(<<"u">>)},
   pluginRejects : BOOLEAN,
   bundleId : {None} \cup {Some(v) : v \in UpdVersions},
   versionName : {None} \cup {Some(v) : v \in UpdVersions}]

\* data.version?.trim()
TrimField(field) == IF field = None THEN None ELSE Some(Trim(field[1]))

\* !remoteVersion: undefined or the empty string
FalsyField(field) == field = None \/ field = Some(<<>>)

\* The base app version whatever bundle is applied.
CurrentVersionOfBase(in) ==
  IF in.versionName # None THEN in.versionName[1] ELSE <<"0", ".", "0", ".", "0">>

\* current?.bundleId ?? versionName ?? '0.0.0'
CurrentVersion(in) ==
  IF in.bundleId # None THEN in.bundleId[1]
  ELSE IF in.versionName # None THEN in.versionName[1]
  ELSE <<"0", ".", "0", ".", "0">>

checkForUpdate(in) ==
  IF ~in.native \/ ~in.configured THEN NoUpdate
  ELSE IF in.fetch # "ok" THEN NoUpdate
  ELSE LET remoteVersion == TrimField(in.version)
           downloadUrl == TrimField(in.url)
       IN  IF FalsyField(remoteVersion) \/ FalsyField(downloadUrl) THEN NoUpdate
           ELSE IF in.pluginRejects THEN NoUpdate
           ELSE IF compareVersions(remoteVersion[1], CurrentVersion(in)) <= 0
                THEN NoUpdate
                ELSE [available |-> TRUE, version |-> remoteVersion[1],
                      url |-> downloadUrl[1]]

InitUpdate ==
  /\ updIn \in {Some(in) : in \in UpdInputs}
  /\ updOut = None
  /\ verA = <<>> /\ verB = <<>> /\ verOut = None
  /\ rtIn = <<>> /\ rtOut = None
  /\ StoreIdle

CheckStep ==
  /\ updIn # None
  /\ updOut = None
  /\ updOut' = Some(checkForUpdate(updIn[1]))
  /\ UNCHANGED <<verA, verB, verOut, rtIn, rtOut, updIn>>
  /\ UNCHANGED <<storeVars, authVars, selVars, sideVars, remote>>

NextUpdate == CheckStep

SpecUpdate == InitUpdate /\ [][NextUpdate]_vars

\* ------------------------------------------------------------------ claims
\* The (title, paragraphs) of the note a handler edits, as an undo slot holds them.
SlotOf(n) == Some([noteId |-> n.id, title |-> n.title, paragraphs |-> n.paragraphs])

MutatingEdits == {"updateTitle", "updateNoteBody", "transcriptSplice", "transcriptAppend"}

\* C1: every mutating edit of the current note (title edit, body edit, selection
\* splice, transcript append) leaves in the undo slot the title and paragraphs the
\* note had immediately before that edit, which is what handleUndo writes back.
C1_UndoHoldsStateBeforeLastEdit ==
  [][op' \in MutatingEdits =>
       undoSnapshot' = SlotOf(FindNote(notes, currentNoteId)[1])]_vars

UpdatedAtKept ==
  \A i \in 1..Len(notes), j \in 1..Len(notes') :
    notes[i].id = notes'[j].id => notes'[j].updatedAt >= notes[i].updatedAt

\* C2 as stated: no step lowers the updatedAt the collection holds for a note id,
\* whatever operation the step is (title or body edit, transcript append, move,
\* undo, import), the clock never going back.
C2_UpdatedAtNeverDecreases == [][UpdatedAtKept]_vars

\* C2, amended: no step other than the merge of an imported file lowers the
\* updatedAt the collection holds for a note id.
C2_UpdatedAtNeverDecreasesButImport ==
  [][op' # "importApplied" => UpdatedAtKept]_vars

C2_Witness ==
  /\ op = "handleUndo"
  /\ \E i \in 1..Len(notes) : notes[i].updatedAt = 2 /\ notes[i].createdAt = 0

HasBlankRun(s) == \E i \in 1..(Len(s) - 1) : s[i] = NL /\ s[i + 1] = NL

IsTrimmedText(s) == s # <<>> /\ Trim(s) = s

\* C3 as stated: for paragraph texts with no blank-line run, joining them with a
\* double line break and re-deriving the blocks gives the same sequence of texts.
C3_RoundTripNoBlankRun ==
  (rtOut # None /\ \A i \in 1..Len(rtIn) : ~HasBlankRun(rtIn[i])) => rtOut[1] = rtIn

\* C3, amended: for paragraph texts that are not empty, carry no white space at
\* either end and hold no blank-line run, joining them with a double line break
\* and re-deriving the blocks gives the same sequence of texts.
C3_RoundTripTrimmed ==
  (rtOut # None
     /\ \A i \in 1..Len(rtIn) : IsTrimmedText(rtIn[i]) /\ ~HasBlankRun(rtIn[i]))
    => rtOut[1] = rtIn

C3_Witness ==
  /\ rtOut # None
  /\ Len(rtIn) = 2
  /\ \A i \in 1..Len(rtIn) : IsTrimmedText(rtIn[i]) /\ ~HasBlankRun(rtIn[i])
  /\ \E i \in 1..Len(rtIn) : NL \in {rtIn[i][k] : k \in 1..Len(rtIn[i])}
  /\ rtOut[1] = rtIn

\* C4: no notes select, upsert or delete a step issues carries the auth identity as
\* its user_id.
C4_NeverKeyedByAuthIdentity ==
  \A i \in 1..Len(issued) : issued[i].user_id # AuthIdentity

\* C5: every invocation of resolveUserId that has started ends, and ends having
\* called setUserId with a value that is not null, whatever the lookup and the
\* insert settle with, a timeout included.
C5_ResolverSetsUserId ==
  \A i \in 1..MaxResolvers :
    (Len(resolvers) >= i) ~>
      (/\ Len(resolvers) >= i
       /\ resolvers[i].pc = "done"
       /\ resolvers[i].set \in {InternalUserId, AuthIdentity})

C5_Witness ==
  /\ Len(resolvers) = 2
  /\ resolvers[1].pc = "done" /\ resolvers[1].set = AuthIdentity
  /\ resolvers[2].pc = "done" /\ resolvers[2].set = InternalUserId
  /\ op = "createSettled"

LoadIssued(calls) == \E i \in 1..Len(calls) : calls[i].op = "select"

ResolutionPending == \E r \in 1..Len(resolvers) : resolvers[r].pc # "done"

C7_ImportedWinsByIdNoDuplicates ==
  [][op' = "importApplied" =>
       LET file == importPending[1]
       IN  /\ \A i \in 1..Len(file) :
                (\A k \in 1..(i - 1) : file[k].id # file[i].id) =>
                  \E j \in 1..Len(notes') : notes'[j] = file[i]
           /\ \A i \in 1..Len(notes) :
                notes[i].id \notin NoteIds(file) =>
                  \E j \in 1..Len(notes') : notes'[j] = notes[i]
           /\ \A j, k \in 1..Len(notes') : j # k => notes'[j].id # notes'[k].id]_vars

C7_Witness ==
  /\ op = "importApplied"
  /\ Len(notes) = 2
  /\ \E i, j \in 1..Len(notes) :
       /\ notes[i].id = 1 /\ notes[i].title = <<"i">> /\ notes[i].updatedAt = 0
       /\ notes[j].id = 2 /\ notes[j].title = <<"t">>

\* C8: the step that applies a folder's local removal leaves neither the folder nor a
\* note of the folder, and leaves the filter at all notes if the folder is the
\* active filter when the step is taken, whatever happened while the remote delete
\* was in flight.
C8_FolderDeleteClearsFolderNotesAndFilter ==
  [][op' = "folderDeleteApplied" =>
       \E p \in pendingFolderDeletes \ pendingFolderDeletes' :
         /\ p.folderId \notin folders'
         /\ \A i \in 1..Len(notes') : notes'[i].folder_id # p.folderId
         /\ (selectedFolderId = p.folderId => selectedFolderId' = NULL)]_vars

SpliceTexts == TranscriptTexts \cup {Trim(t) : t \in LiveTexts}

HelloWorld == <<"h", "e", "l", "l", "o", " ", "w", "o", "r", "l", "d">>

\* C9: a transcript that completes with a captured range and a current note makes
\* the note's blocks those of bodyTextAtRecord[0..start) + text +
\* bodyTextAtRecord[end..), the body captured with the range and not the note's body
\* at completion; the range [3,7) over "hello world" with "THERE" gives "helTHEREorld".
C9_SpliceAgainstCapturedBody ==
  [][op' = "transcriptSplice" =>
       /\ \E text \in SpliceTexts :
            ParagraphTexts(FindNote(notes', currentNoteId)[1]) =
              BodyBlocks(Slice(bodyTextAtRecord, 0, selectionRange[1].start)
                           \o text
                           \o Slice(bodyTextAtRecord, selectionRange[1].end,
                                    Len(bodyTextAtRecord)))
       /\ bodyTextAtRecord' = <<>>
       /\ selectionRange' = None
       /\ SpliceBody(HelloWorld, [start |-> 3, end |-> 7], <<"T", "H", "E", "R", "E">>)
            = <<"h", "e", "l", "T", "H", "E", "R", "E", "o", "r", "l", "d">>]_vars

\* The splice [1,2) of "b" into the captured "a\n\nb", with the note's body cut to
\* "a" while the recording ran: the slot holds the note as the completion found it.
C9_Witness ==
  /\ op = "transcriptSplice"
  /\ ParagraphTexts(FindNote(notes, currentNoteId)[1]) = <<<<"a", "b", NL, "b">>>>
  /\ undoSnapshot # None
  /\ [i \in 1..Len(undoSnapshot[1].paragraphs) |-> undoSnapshot[1].paragraphs[i].text]
       = <<<<"a">>>>

\* C10: compareVersions(a, b) = -compareVersions(b, a) for every pair of dotted
\* versions, a missing trailing component counting as 0: "1.0.1" is above "1.0.0",
\* "1.0" equals "1.0.0", and "2" is above "1.9.9".
C10_Antisymmetric ==
  /\ verOut # None => verOut[1] = 0 - compareVersions(verB, verA)
  /\ compareVersions(<<"1", ".", "0", ".", "1">>, <<"1", ".", "0", ".", "0">>) > 0
  /\ compareVersions(<<"1", ".", "0">>, <<"1", ".", "0", ".", "0">>) = 0
  /\ compareVersions(<<"2">>, <<"1", ".", "9", ".", "9">>) > 0

C10_Witness ==
  /\ verOut = Some(1)
  /\ Len(VersionParts(verA)) < Len(VersionParts(verB))

UndoOps == {"handleUndo", "handleUndoEmpty"}

\* C11: a restore leaves the undo slot empty; a restore that follows a restore with
\* no step in between changes no note, issues no upsert and leaves the slot empty;
\* and a restore that finds the slot empty changes no note and issues no upsert.
C11_RestoreIsSingleUse ==
  [][/\ (op' \in UndoOps => undoSnapshot' = None)
     /\ (op \in UndoOps /\ op' \in UndoOps =>
           notes' = notes /\ issued' = <<>> /\ op' = "handleUndoEmpty")
     /\ (undoSnapshot = None /\ op' \in UndoOps =>
           notes' = notes /\ issued' = <<>>)]_vars

\* A restore on the empty slot, the note holding the title a restore gave back.
C11_Witness ==
  /\ op = "handleUndoEmpty"
  /\ undoSnapshot = None
  /\ \E i \in 1..Len(notes) : notes[i].title = NewNoteTitle /\ notes[i].updatedAt = 1

\* C12: a step that changes the current note (a note selected, created, deleted
\* while current, a load, a folder removed, a sign-out) leaves the undo slot empty,
\* and a restore that finds it empty changes no note.
C12_SlotEmptiedWhenCurrentNoteChanges ==
  [][/\ (currentNoteId' # currentNoteId => undoSnapshot' = None)
     /\ (op' \in UndoOps /\ undoSnapshot = None => notes' = notes /\ issued' = <<>>)]_vars

\* A restore that did nothing: the note edited last is not the current one.
C12_Witness ==
  /\ op = "handleUndoEmpty"
  /\ Len(notes) = 2
  /\ \E i \in 1..Len(notes) : notes[i].title \in TitleInputs /\ notes[i].id # currentNoteId
  /\ \E i \in 1..Len(notes) : notes[i].title = NewNoteTitle /\ notes[i].id = currentNoteId

\* C13: in every reachable state no two notes of the collection have the same id,
\* whatever sequence of create, load, import, delete, folder removal, edit and undo
\* led there.
C13_AtMostOneNotePerId ==
  \A i, j \in 1..Len(notes) : i # j => notes[i].id # notes[j].id

\* The import of a file that holds the loaded note's id, next to a created note.
C13_Witness ==
  /\ op = "importApplied"
  /\ Len(notes) = 2
  /\ \E i, j \in 1..Len(notes) :
       /\ notes[i].id = LoadedNote.id /\ notes[i].title = <<"i">>
       /\ notes[j].id = 2 /\ notes[j].title = NewNoteTitle

\* The fetched note updated last, if any was fetched.
MostRecentIsCurrent(ns, cur) ==
  IF ns = <<>> THEN cur = NoId
  ELSE /\ FindNote(ns, cur) # None
       /\ \A j \in 1..Len(ns) : ns[j].updatedAt <= FindNote(ns, cur)[1].updatedAt

\* C14: a notes load that is answered with rows makes the collection those rows;
\* makes the row updated last the current note if no note was current; and leaves
\* the current note as it was if a note was current and is among the rows.
C14_LoadReplacesAndKeepsSelection ==
  [][op' = "loadNotesAnswered" =>
       /\ \E a \in LoadRows \ {None} : notes' = a[1]
       /\ (currentNoteId = NoId => MostRecentIsCurrent(notes', currentNoteId'))
       /\ (currentNoteId # NoId /\ FindNote(notes', currentNoteId) # None =>
             currentNoteId' = currentNoteId)]_vars

\* An upsert among the calls that carries the note.
UpsertOf(calls, note) ==
  \E k \in 1..Len(calls) : calls[k].op = "upsert" /\ calls[k].note = Some(note)

\* C15: a move of an existing note to a folder or to none, made while userId is
\* resolved, leaves the note in that folder with updatedAt at the clock and
\* issues an upsert that carries the note as moved.
C15_MoveSetsFolderAndPersists ==
  [][op' = "handleMoveNoteToFolder" /\ userId # NULL =>
       LET moved == FindNote(notes', currentNoteId)[1]
       IN  /\ moved.folder_id \in folders \cup {NULL}
           /\ moved.updatedAt = now
           /\ UpsertOf(issued', moved)]_vars

\* C16: a restore that finds a snapshot of a note the collection holds, made while
\* userId is resolved, gives the note the snapshot's title and paragraphs with
\* updatedAt at the clock and issues an upsert that carries the note as restored.
C16_RestorePersists ==
  [][/\ op' = "handleUndo"
     /\ userId # NULL
     /\ FindNote(notes, undoSnapshot[1].noteId) # None
     => LET snap == undoSnapshot[1]
            restored == FindNote(notes', snap.noteId)[1]
        IN  /\ restored.title = snap.title
            /\ restored.paragraphs = snap.paragraphs
            /\ restored.updatedAt = now
            /\ UpsertOf(issued', restored)]_vars

\* C17: a title edit or a body edit of the current note leaves in the undo slot
\* the title and paragraphs the note had before it, leaves the note changed with
\* updatedAt at the clock, issues one upsert, which carries the note as changed,
\* and leaves every other note as it was.
C17_EditSnapshotsAppliesAndPersists ==
  [][op' \in {"updateTitle", "updateNoteBody"} =>
       LET before == FindNote(notes, currentNoteId)[1]
           after == FindNote(notes', currentNoteId)[1]
       IN  /\ undoSnapshot' = SlotOf(before)
           /\ \/ op' = "updateTitle" /\ after.title \in TitleInputs
                                        /\ after.paragraphs = before.paragraphs
              \/ op' = "updateNoteBody" /\ after.title = before.title
                   /\ \E b \in StoreBodyInputs : ParagraphTexts(after) = BodyBlocks(b)
           /\ after.updatedAt = now
           /\ after.updatedAt >= before.updatedAt
           /\ Len(issued') = 1
           /\ UpsertOf(issued', after)
           /\ Len(notes') = Len(notes)
           /\ \A i \in 1..Len(notes) :
                notes[i].id # currentNoteId => notes'[i] = notes[i]]_vars

\* The steps in which handleTranscriptionComplete runs with no captured range.
AppendOps == {"transcriptCreate", "transcriptAppend"}

\* C18: a transcript that completes with no captured range, when no note is
\* current, puts one new note at the front of the collection and makes it
\* current, its title the first 30 characters of the text, with an ellipsis
\* exactly when the text is longer, and its one paragraph the text; when a note is
\* current, gives that note one more paragraph, of a fresh id and holding the text,
\* after its earlier paragraphs, which stay as they were.
C18_AppendTranscript ==
  [][op' \in AppendOps /\ selectionRange = None =>
       \E text \in SpliceTexts :
         IF FindNote(notes, currentNoteId) = None
         THEN /\ notes' = <<notes'[1]>> \o notes
              /\ currentNoteId' = notes'[1].id
              /\ notes'[1].title = TranscriptTitle(text)
              /\ Len(text) > TitleMax <=> Len(notes'[1].title) = TitleMax + 3
              /\ ParagraphTexts(notes'[1]) = <<text>>
         ELSE LET before == FindNote(notes, currentNoteId)[1].paragraphs
                  after == FindNote(notes', currentNoteId)[1].paragraphs
              IN  /\ currentNoteId' = currentNoteId
                  /\ Len(after) = Len(before) + 1
                  /\ SubSeq(after, 1, Len(before)) = before
                  /\ after[Len(after)].text = text
                  /\ after[Len(after)].id >= nextUuid]_vars

\* The id a step removed from the collection.
DeletedId == CHOOSE id \in NoteIds(notes) : id \notin NoteIds(notes')

\* C19: the deletion of the current note makes the remaining note of the greatest
\* updatedAt the current note, or none if no note remains; the deletion of
\* another note leaves the current note as it was.
C19_DeleteReassignsToMostRecent ==
  [][op' = "handleDeleteNote" =>
       IF DeletedId = currentNoteId
       THEN MostRecentIsCurrent(notes', currentNoteId')
       ELSE currentNoteId' = currentNoteId]_vars

\* The remote deletes among calls that name id.
DeletesOf(calls, id) ==
  {i \in 1..Len(calls) : calls[i].op = "delete" /\ calls[i].id = id}

\* C20: the deletion of the checked notes, once confirmed, removes from the
\* collection the notes whose ids are checked and no other note, issues one remote
\* delete for every checked id and no other call, moves the current note to a
\* remaining note (or to none if no note remains) if it was checked and leaves it
\* otherwise, and ends with the selection mode off and nothing checked.
C20_DeleteManyRemovesExactlyTheSelection ==
  [][op' = "handleDeleteSelected" =>
       LET sel == SetMembers(selectedNoteIds)
       IN  /\ {notes'[i] : i \in 1..Len(notes')} =
                {notes[i] : i \in {j \in 1..Len(notes) : notes[j].id \notin sel}}
           /\ Len(notes') = Len(notes) - Cardinality(sel \cap NoteIds(notes))
           /\ Len(issued') = Cardinality(sel)
           /\ \A id \in sel :
                /\ Cardinality(DeletesOf(issued', id)) = 1
                /\ \A i \in DeletesOf(issued', id) : issued'[i].user_id = userId
           /\ IF currentNoteId \in sel
              THEN /\ currentNoteId' \in NoteIds(notes') \cup {NoId}
                   /\ currentNoteId' = NoId <=> notes' = <<>>
              ELSE currentNoteId' = currentNoteId
           /\ ~selectionMode'
           /\ selectedNoteIds' = <<>>]_vars

\* Two of the three loaded notes checked, the current note among them, and deleted.
C20_Witness ==
  /\ op = "handleDeleteSelected"
  /\ notes = <<OldestNote>>
  /\ currentNoteId = OldestNote.id
  /\ Len(issued) = 2
  /\ DeletesOf(issued, RecentNote.id) # {}
  /\ DeletesOf(issued, LoadedNote.id) # {}
  /\ ~selectionMode
  /\ selectedNoteIds = <<>>

\* ------------------------------------------------- SpecDecline: the prompts
NextDecline ==
  \/ initAuth(TRUE)
  \/ \E i \in 1..MaxResolvers : lookupSettled(i, "row")
  \/ \E l \in loadsInFlight : loadNotesAnswered(l, ThreeRows)
  \/ \E l \in loadsInFlight : loadFoldersAnswered(l, {})
  \/ UiShown /\ \E id \in ListedIds : handleSelectNote(id)
  \/ UiShown /\ \E t \in TitleInputs : updateTitle(t)
  \/ UiShown /\ \E f \in FolderIds : handleCreateFolder(f)
  \/ UiShown /\ \E f \in folders \cup {NULL} : handleSelectFolder(f)
  \/ UiShown /\ SelectModeNext
  \/ UiShown /\ \E id \in ListedIds : handleDeleteNoteDeclined(id)
  \/ UiShown /\ handleDeleteSelectedDeclined
  \/ UiShown /\ \E f \in folders : handleDeleteFolderDeclined(f)

SpecDecline == InitAuth /\ [][NextDecline]_vars

DeclinedOps ==
  {"handleDeleteNoteDeclined", "handleDeleteSelectedDeclined",
   "handleDeleteFolderDeclined"}

\* C21: a delete, deleteMany or folder delete whose prompt is declined leaves the
\* collection, the folders, the current note, the selection, the folder filter
\* and the undo slot as they were, and issues no remote call.
C21_DeclinedPromptChangesNothing ==
  [][op' \in DeclinedOps =>
       /\ notes' = notes
       /\ folders' = folders
       /\ currentNoteId' = currentNoteId
       /\ selectionMode' = selectionMode
       /\ selectedNoteIds' = selectedNoteIds
       /\ selectedFolderId' = selectedFolderId
       /\ undoSnapshot' = undoSnapshot
       /\ pendingFolderDeletes' = pendingFolderDeletes
       /\ issued' = <<>>]_vars

\* A declined deleteMany with notes selected, a folder filter set and an undo
\* snapshot held.
C21_Witness ==
  /\ op = "handleDeleteSelectedDeclined"
  /\ Len(selectedNoteIds) = 2
  /\ selectedFolderId # NULL
  /\ undoSnapshot # None
  /\ Len(notes) = 3

\* ------------------------------------------ SpecRemoteFail: rejected calls
NextRemoteFail ==
  \/ initAuth(TRUE)
  \/ \E i \in 1..MaxResolvers : lookupSettled(i, "row")
  \/ \E l \in loadsInFlight : loadNotesAnswered(l, ThreeRows)
  \/ \E l \in loadsInFlight : loadFoldersAnswered(l, {})
  \/ UiShown /\ \E id \in ListedIds : handleSelectNote(id)
  \/ UiShown /\ \E t \in TitleInputs : updateTitle(t)
  \/ UiShown /\ handleUndo
  \/ UiShown /\ \E id \in ListedIds : handleDeleteNote(id)
  \/ UiShown /\ \E f \in FolderIds : handleCreateFolder(f)
  \/ UiShown /\ \E f \in folders : handleDeleteFolder(f)
  \/ \E p \in pendingFolderDeletes : folderDeleteApplied(p)
  \/ \E p \in pendingFolderDeletes : folderDeleteFailed(p)
  \/ \E k \in 1..Len(issued) : remoteCallFailed(k)

SpecRemoteFail == InitAuth /\ [][NextRemoteFail]_vars

\* What a failed call may not touch: the collection, the current note, the undo
\* slot, the folders and their filter, the selection; and it issues nothing and
\* raises no alert.
FailureIsSilent ==
  /\ notes' = notes
  /\ currentNoteId' = currentNoteId
  /\ undoSnapshot' = undoSnapshot
  /\ folders' = folders
  /\ selectedFolderId' = selectedFolderId
  /\ selectedNoteIds' = selectedNoteIds
  /\ issued' = <<>>
  /\ alertShown' = None

ComponentAt(p, i) == IF i <= Len(p) THEN p[i] ELSE 0

\* a is strictly greater than b as dotted integers: at the first component where
\* they differ, a's is the greater.
StrictlyNewer(a, b) ==
  LET pa == VersionParts(a)
      pb == VersionParts(b)
  IN  \E i \in 1..Max(Len(pa), Len(pb)) :
        /\ ComponentAt(pa, i) > ComponentAt(pb, i)
        /\ \A j \in 1..(i - 1) : ComponentAt(pa, j) = ComponentAt(pb, j)

\* The manifest was fetched and parsed and has a version and a url.
ManifestUsable(in) ==
  /\ in.fetch = "ok"
  /\ in.version # None /\ Trim(in.version[1]) # <<>>
  /\ in.url # None /\ Trim(in.url[1]) # <<>>

\* C23: checkForUpdate reports an update exactly when it runs under the native
\* shell with a manifest configured, the manifest is fetched and has a version
\* and a url, and the manifest's version is strictly greater, as dotted
\* integers, than the applied bundle's version or, with no bundle applied, the
\* base app version; everything else gives no update.
C23_UpdateAvailableExactlyWhenNewer ==
  updOut # None =>
    LET in == updIn[1]
        current == IF in.bundleId # None THEN in.bundleId[1]
                   ELSE IF in.versionName # None THEN in.versionName[1]
                   ELSE <<"0", ".", "0", ".", "0">>
    IN  updOut[1].available <=>
          /\ in.native
          /\ in.configured
          /\ ManifestUsable(in)
          /\ ~in.pluginRejects
          /\ StrictlyNewer(Trim(in.version[1]), current)

\* An update is on offer over the base app version, no bundle being applied,
\* and it would not be over a bundle of the manifest's own version.
C23_Witness ==
  /\ updOut # None
  /\ updOut[1].available
  /\ updIn[1].bundleId = None
  /\ updIn[1].versionName # None
  /\ updIn[1].version = Some(<<SP, "2">>)

\* ------------------------------------------------ SpecApply: the update dialog
NextApply ==
  \/ initAuth(TRUE)
  \/ authSignedOut
  \/ authSignedIn
  \/ \E i \in 1..MaxResolvers : lookupSettled(i, "row")
  \/ \E l \in loadsInFlight : loadNotesAnswered(l, Some(<<LoadedNote>>))
  \/ \E l \in loadsInFlight : loadFoldersAnswered(l, {})
  \/ \E result \in CheckResults : updateCheckAnswered(result)
  \/ handleUpdateLater
  \/ handleUpdateConfirm
  \/ \E i \in 1..MaxApplies : applyStepDone(i)
  \/ applyFailed
  \/ applyReloaded

SpecApply == InitAuth /\ [][NextApply]_vars

\* C24: at most one applyUpdate is in flight; a confirmation that arrives while
\* an apply has not finished starts no download.
C24_AtMostOneApplyInFlight ==
  /\ appliesInFlight <= 1
  /\ appliesInFlight = 1 => updateUpdating

\* A confirmation arrived while the apply was running and was ignored.
C24_Witness ==
  /\ op = "handleUpdateConfirmIgnored"
  /\ updateUpdating
  /\ appliesInFlight = 1
  /\ updateAvailable # None

\* The identity is resolved and a notes load has run to its end.
NotesLoaded == userId # NULL /\ notesLoadedOnce /\ ~notesLoading

\* C25: notifyReady is called only once the user's identity is resolved and the
\* notes load has completed successfully.
C25_ReadyOnlyAfterIdentityAndLoad ==
  readyCalled => NotesLoaded

\* C25, the identity half: notifyReady is called only under a resolved identity.
C25_ReadyOnlyAfterIdentity ==
  readyCalled => userId # NULL /\ user # NULL /\ ~loading

\* C26: after an import every note of the collection has an id, and every note
\* the import persisted, the id-less ones under their minted ids, is in the
\* collection under the id it was persisted with.
C26_ImportMintsMissingIds ==
  [][op' = "importApplied" =>
       /\ \A i \in 1..Len(notes') : ~Falsy(notes'[i].id)
       /\ op = "handleImportNotes" =>
            \A k \in 1..Len(issued) : issued[k].id \in NoteIds(notes')]_vars

\* --------------------------------------------- SpecImportFile: any file
NextImportFile ==
  \/ NextImport
  \/ \E kind \in MalformedFiles : handleImportMalformed(kind)

SpecImportFile == Init /\ [][NextImportFile]_vars

\* C27: importing a file that is not JSON, or JSON that is not an array of
\* notes, shows the format-error message and leaves the collection as it was,
\* with nothing persisted.
C27_MalformedImportAlertsAndChangesNothing ==
  [][op' = "handleImportMalformed" =>
       /\ alertShown' = Some("formatError")
       /\ notes' = notes
       /\ currentNoteId' = currentNoteId
       /\ issued' = <<>>]_vars

\* ------------------------------------- SpecTranscribe: standard recordings
NextTranscribe ==
  \/ CollectionNext
  \/ \E started \in BOOLEAN : startRecording([start |-> 0, end |-> 0], started)
  \/ pauseRecording
  \/ resumeRecording
  \/ stopStandardRecording
  \/ \E text \in ResponseTexts : transcriptionDone(text)
  \/ transcriptionFailed

SpecTranscribe == InitEdit /\ [][NextTranscribe]_vars

\* The transcription call gave no transcript: it threw, or the response had no text.
NoTranscript == {Some("throws"), Some("noText")}

\* C28: whenever the transcription call yields no transcript an alert is raised,
\* the status returns to idle, and no note is created or modified.
C28_FailedTranscriptionAlertsAndChangesNothing ==
  [][status = "transcribing" /\ status' # "transcribing" /\ transcribed' \in NoTranscript =>
       /\ alertShown' # None
       /\ status' = "idle"
       /\ notes' = notes]_vars

\* C28, the throwing half: a transcribeAudio that throws raises the alert, returns
\* the status to idle and changes no note.
C28_ThrownTranscriptionAlertsAndChangesNothing ==
  [][status = "transcribing" /\ transcribed' = Some("throws") =>
       /\ alertShown' = Some("transcribeError")
       /\ status' = "idle"
       /\ notes' = notes]_vars

\* ----------------------------------- SpecCapture: selections and recordings
NextCapture ==
  \/ handleNewNote
  \/ \E id \in ListedIds : handleSelectNote(id)
  \/ \E b \in BodyInputs : updateNoteBody(b)
  \/ \E r \in RecordRanges(BodyOf(notes, currentNoteId)) : captureSelection(r)
  \/ \E r \in RecordRanges(BodyOf(notes, currentNoteId)), started \in BOOLEAN :
        startRecording(r, started)
  \/ stopStandardRecording
  \/ \E text \in TranscriptTexts : transcriptionDone(text)
  \/ transcriptionFailed

SpecCapture == InitEdit /\ [][NextCapture]_vars

RecordingStarts == {"startRecording", "startRecordingFailed"}

\* The last-known selection is not empty and was taken over the body the
\* current note has now.
LastSelectionUsable ==
  /\ lastSelection # None
  /\ lastSelection[1].start # lastSelection[1].end
  /\ lastSelection[1].value = BodyOf(notes, currentNoteId)

\* C29: a recording start captures the editor's live selection if that is not
\* empty; else the last-known selection if it is not empty and its recorded
\* value is the current note's body; else nothing, whatever an earlier start
\* had captured.
C29_CaptureDecision ==
  [][op' \in RecordingStarts =>
       LET live == elSelection'[1]
       IN  IF live.start # live.end
           THEN selectionRange' = Some(live)
           ELSE IF LastSelectionUsable
                THEN selectionRange' = Some([start |-> lastSelection[1].start,
                                             end |-> lastSelection[1].end])
                ELSE selectionRange' = None]_vars

\* A start with nothing selected in the editor and a last-known selection taken
\* over an older body: nothing is captured.
C29_Witness ==
  /\ op = "startRecording"
  /\ elSelection # None /\ elSelection[1].start = elSelection[1].end
  /\ lastSelection # None
  /\ lastSelection[1].start # lastSelection[1].end
  /\ lastSelection[1].value # BodyOf(notes, currentNoteId)
  /\ selectionRange = None
  /\ bodyTextAtRecord # <<>>

\* C30: in every state with status idle no range is captured.
C30_IdleHoldsNoRange ==
  status = "idle" => selectionRange = None

\* C30, the note half: a step that changes the current note leaves no range
\* captured.
C30_NoteSwitchClearsRange ==
  [][currentNoteId' # currentNoteId => selectionRange' = None]_vars

\* The range the overlay highlights, if the overlay is drawn:
\* replacingSelection && replacingSelectionRange.
OverlayRange ==
  IF replacingSelection = None THEN None ELSE Some(replacingSelection[1].range)

\* C31: the overlay is shown exactly while a range is captured, and over the
\* range the completion of the transcription will use.
C31_OverlayAgreesWithCapture ==
  OverlayRange = selectionRange

\* C31, while a recording runs: an overlay drawn during a recording or its
\* transcription is over the captured range.
C31_OverlayWhileRecordingIsCaptured ==
  status # "idle" /\ OverlayRange # None => OverlayRange = selectionRange

\* C32: a lookup that settles before its timer with the answer that no mapping
\* row exists takes the resolver to the insert of the row, not to the fallback.
C32_NoRowLeadsToCreate ==
  [][\A i \in 1..MaxResolvers :
       lookupSettled(i, "noRows") => resolvers'[i].pc = "create"]_vars

\* ------------------------------------------- SpecRemote: the notes table
\* The most calls on their way to the table at once.
MaxInFlight == 2

RowsOf(rows, id) == {r \in rows : r.id = id}

\* upsert: insert ... on conflict (id) do update. An insert stores the payload
\* as sent; an update stores the payload's columns and then trg_set_updated_at
\* overwrites updated_at with now().
UpsertRow(rows, call) ==
  (rows \ RowsOf(rows, call.id)) \cup
    {[id |-> call.id, user_id |-> call.user_id, note |-> call.note[1],
      updated_at |-> IF RowsOf(rows, call.id) = {} THEN "payload" ELSE "now()"]}

\* delete().eq('id', id).eq('user_id', userId)
DeleteRow(rows, call) ==
  {r \in rows : ~(r.id = call.id /\ r.user_id = call.user_id)}

TableAfter(rows, call) ==
  IF call.op = "upsert" THEN UpsertRow(rows, call) ELSE DeleteRow(rows, call)

\* The k-th call on its way reaches the table and is answered; the await in
\* persistNoteToCloud or deleteNoteFromCloud resumes and the function returns.
remoteCallArrived(k) ==
  /\ remote # None
  /\ k \in 1..Len(remote[1].inFlight)
  /\ remote' = Some([inFlight |-> RemoveAt(remote[1].inFlight, k),
                     rows |-> TableAfter(remote[1].rows, remote[1].inFlight[k])])
  /\ op' = "remoteCallArrived"
  /\ alertShown' = None
  /\ readyCalled' = FALSE
  /\ issued' = <<>>
  /\ UNCHANGED <<notes, currentNoteId, undoSnapshot, folders, selectedFolderId,
                 selectionRange, bodyTextAtRecord, lastSelection, status, recClosure,
                 mode, pendingFolderDeletes, importPending, userId, cbUserId, now,
                 nextUuid>>
  /\ UNCHANGED restVars

\* The table as the load found it: the row of the loaded note.
InitRemote ==
  /\ InitLoaded
  /\ PureIdle
  /\ remote = Some([inFlight |-> <<>>,
                    rows |-> {[id |-> LoadedNote.id, user_id |-> InternalUserId,
                               note |-> LoadedNote, updated_at |-> "payload"]}])

NetRoom == Len(remote[1].inFlight) < MaxInFlight

\* SpecRemote: a signed-in session over one loaded note, with the table followed:
\* notes are created, written and deleted, and the calls arrive in any order.
NextRemote ==
  \/ Tick
  \/ NetRoom /\ handleNewNote
  \/ NetRoom /\ \E b \in StoreBodyInputs : updateNoteBody(b)
  \/ NetRoom /\ \E id \in ListedIds : handleDeleteNote(id)
  \/ \E k \in 1..MaxInFlight : remoteCallArrived(k)

SpecRemote == InitRemote /\ [][NextRemote]_vars

\* No call on the notes table is on its way.
AllArrived == remote[1].inFlight = <<>>

\* C33: once every upsert has completed, the row of each note of the collection
\* holds the note as the collection holds it.
C33_RemoteHoldsLatest ==
  AllArrived =>
    \A i \in 1..Len(notes) :
      \A r \in RowsOf(remote[1].rows, notes[i].id) : r.note = notes[i]

\* C33, by the stamps: once every upsert has completed, no row holds a version
\* the client stamped earlier than the note the collection holds.
C33_RemoteHoldsGreatestUpdatedAt ==
  AllArrived =>
    \A i \in 1..Len(notes) :
      \A r \in RowsOf(remote[1].rows, notes[i].id) :
        r.note.updatedAt >= notes[i].updatedAt

\* C40: once every call on the notes table has completed, the table holds no row
\* of a note that was deleted from the collection.
C40_DeletedNoteAbsentFromTable ==
  AllArrived => \A r \in remote[1].rows : r.id \in NoteIds(notes)

\* The note a standard recording was started in is gone from the collection or
\* is not the current note any more.
TargetGoneOrLeft ==
  /\ status = "transcribing" /\ recClosure # None
  /\ \/ recClosure[1].currentNoteId \notin NoteIds(notes)
     \/ recClosure[1].currentNoteId # currentNoteId

TranscriptOps == {"transcriptAppend", "transcriptSplice", "transcriptCreate"}

\* C34: a transcript that arrives after the note of its recording was deleted or
\* left creates no note and changes no note but that one.
C34_LateTranscriptTouchesNoOtherNote ==
  [][TargetGoneOrLeft /\ op' \in TranscriptOps =>
       /\ NoteIds(notes') \subseteq NoteIds(notes)
       /\ currentNoteId' = currentNoteId
       /\ \A i \in 1..Len(notes) :
            notes[i].id # recClosure[1].currentNoteId =>
              \E j \in 1..Len(notes') : notes'[j] = notes[i]]_vars

\* A standard recording's transcript arrived and the current note holds no
\* paragraph: the recording was started in another note.
C34_Witness ==
  /\ op = "transcriptAppend"
  /\ transcribed = Some("text")
  /\ FindNote(notes, currentNoteId) # None
  /\ FindNote(notes, currentNoteId)[1].paragraphs = <<>>

\* ------------------------------------------------ SpecBody: the body editor
\* The longest of the bodies drawn from every string over a letter and a line break.
MaxTyped == 3

\* The bodies typed: short strings of letters and line breaks, two blocks around a
\* blank line, and bodies with spaces at the ends and inside.
BodyTexts ==
  StringsUpTo({"a", NL}, MaxTyped) \cup
    {<<SP>>, <<SP, "a", SP>>, <<"a", SP, "a">>, <<"a", NL, NL, "a">>,
     <<NL, NL, "a", SP>>}

\* SpecBody: the body of the loaded note is rewritten as time passes.
NextBody ==
  \/ Tick
  \/ \E b \in BodyTexts : updateNoteBody(b)

SpecBody == InitEdit /\ [][NextBody]_vars

NonWhite(s) == SelectSeq(s, LAMBDA c : ~IsWhitespace(c))

\* The runs of two or more line breaks in s.
BlankRuns(s) ==
  {i \in 1..(Len(s) - 1) : s[i] = NL /\ s[i + 1] = NL /\ (i = 1 \/ s[i - 1] # NL)}

\* texts are the trimmed non-empty blocks between the blank-line runs of body.
TrimmedBlocksOf(texts, body) ==
  /\ \A i \in 1..Len(texts) : IsTrimmedText(texts[i]) /\ ~HasBlankRun(texts[i])
  /\ NonWhite(JoinParas(texts)) = NonWhite(body)
  /\ Len(texts) <= Cardinality(BlankRuns(body)) + 1
  /\ Len(texts) = 0 <=> Trim(body) = <<>>

ParagraphIds(paragraphs) == {paragraphs[i].id : i \in 1..Len(paragraphs)}

\* new keeps the id and timestamp of old position by position, and every further
\* position has an id met nowhere else in the note.
IndexAligned(old, new, noteId) ==
  /\ \A i \in 1..Min(Len(old), Len(new)) :
       new[i].id = old[i].id /\ new[i].timestamp = old[i].timestamp
  /\ \A i \in (Len(old) + 1)..Len(new) :
       /\ new[i].id \notin ParagraphIds(old) \cup {noteId}
       /\ \A j \in 1..Len(new) : j # i => new[j].id # new[i].id

\* C35: updateNoteBody(bodyText) leaves the current note with the trimmed
\* non-empty blocks of bodyText as its texts, the old ids and timestamps position
\* by position, and fresh ids beyond the old count.
C35_BodyBlocksIndexAligned ==
  [][\A b \in BodyTexts :
       updateNoteBody(b) =>
         LET old == FindNote(notes, currentNoteId)[1]
             new == FindNote(notes', currentNoteId)[1]
         IN  /\ TrimmedBlocksOf(ParagraphTexts(new), b)
             /\ IndexAligned(old.paragraphs, new.paragraphs, old.id)]_vars

\* A body edit left a paragraph kept from before next to one minted later.
C35_Witness ==
  /\ op = "updateNoteBody"
  /\ \E n \in {notes[i] : i \in 1..Len(notes)} :
       /\ Len(n.paragraphs) = 2
       /\ n.paragraphs[1].timestamp < n.paragraphs[2].timestamp
       /\ n.paragraphs[1].id # n.paragraphs[2].id

IsPrefix(s, t) == Len(s) <= Len(t) /\ \A i \in 1..Len(s) : s[i] = t[i]

\* C36: an apply calls download, mark-as-next and reload in that order, each
\* after the one before succeeded; a step that fails ends the apply with no
\* further call and resets the in-flight flag, so that a confirmation can start
\* an apply again.
C36_ApplyStepsInOrderAndFailureResets ==
  [][/\ \A i \in 1..Len(applyCalls') :
          applyCalls'[i] # <<>> /\ IsPrefix(applyCalls'[i], ApplySteps)
     /\ op' = "applyStepDone" =>
          /\ Len(applyCalls') = Len(applyCalls)
          /\ \E i \in 1..Len(applyCalls) :
               /\ applyCalls'[i] = Append(applyCalls[i], ApplySteps[Len(applyCalls[i]) + 1])
               /\ \A j \in 1..Len(applyCalls) : j # i => applyCalls'[j] = applyCalls[j]
     /\ op' = "applyFailed" =>
          /\ \E i \in 1..Len(applyCalls) : applyCalls' = RemoveAt(applyCalls, i)
          /\ ~updateUpdating'
          /\ updateAvailable' # None => ConfirmStarts(updateAvailable', updateUpdating')]_vars

\* An apply was confirmed again after an earlier one failed, and has reached its
\* reload.
C36_Witness ==
  /\ op = "applyStepDone"
  /\ applyCalls = <<ApplySteps>>
  /\ updateUpdating

\* An apply failed at its second or third call and the dialog is still drawn.
C36_FailedWitness ==
  /\ op = "applyFailed"
  /\ applyCalls = <<>>
  /\ ~updateUpdating
  /\ updateAvailable # None

\* C37: in every reachable state the current note id is none or the id of a note
\* of the collection.
C37_CurrentNoteIsInCollection ==
  currentNoteId = NoId \/ currentNoteId \in NoteIds(notes)

\* C38: while the same user stays signed in, a userId that is the mapped internal
\* id does not change to the authIdentity fallback.
C38_MappedIdNeverFallsBack ==
  [][userId = InternalUserId /\ user = AuthIdentity /\ user' = AuthIdentity =>
       userId' # AuthIdentity]_vars

\* C39: while no user is signed in, userId is null and the collection is empty:
\* nothing started before the sign-out sets either afterwards.
C39_SignedOutStaysEmpty ==
  user = NULL => userId = NULL /\ notes = <<>>

====
